---- MODULE Spec2Model ----
(***************************************************************************)
(* Banner bot (ASTDXBannerBot): scheduler, capture session, browser        *)
(* lifecycle and dedup cache.                                              *)
(*                                                                         *)
(* Spec       the ephemeral-browser bot of src/start.sh (second class,     *)
(*            lines 1459-2238): the browser is launched per capture        *)
(*            session and closed afterwards.  Every await of a session is  *)
(*            a point where other callbacks (timer tick, command, another  *)
(*            session) may run.                                            *)
(* FairSpec   Spec plus weak fairness on the steps of a session: every     *)
(*            pending await of the session eventually completes.           *)
(* DedupSpec  isDuplicateImage and the session reset applied to arbitrary  *)
(*            images and capacities.                                       *)
(***************************************************************************)
EXTENDS Integers, Sequences, FiniteSets, TLC

(* ------------------------------ bounds ------------------------------- *)
\* capture sessions that may be in flight together
MaxSessions == 2
\* timer ticks that may pass while some session stays in flight
MaxSpan == 2
\* distinct image contents offered to the dedup cache
NumImages == 4
\* largest cache capacity tried in DedupSpec
MaxCap == 3
\* isDuplicateImage calls recorded between two resets in DedupSpec
MaxCalls == 5
\* operations of one session recorded in LoggedSpec
MaxLog == 8
\* characters in the caption file of SendSpec
MaxFileLen == 3
\* sendToDiscord calls recorded in SendSpec
MaxSends == 2
\* the clock of TimingSpec stops at MaxTime, in units of ten seconds
MaxTime == 8
\* captures sent, at most, in a behaviour of TimingSpec
MaxCaptures == 3
\* characters and words in the OCR text of OcrSpec
MaxTextLen == 7
\* the clock of MonitorSpec stops at this minute
MaxMinute == 2

(* ------------------------- program constants ------------------------- *)
xBannerMinute == 1
yBannerMinute == 31
DefaultHashCacheSize == 5
maxAttempts == 3
\* tries per banner of the bounded-retry class
RetryTries == 5
\* attempt cap of the probe loops in the memory-fix notes
MAX_ATTEMPTS == 50
MinutesPerHour == 60
\* captureStrategy.minTimeBetweenCaptures, 30000 ms, in units of ten seconds
minTimeBetweenCaptures == 3

Sessions == 1..MaxSessions
Images == 1..NumImages
\* a null image buffer / a null hash / a null handle
NoImage == 0
NoHash == <<"null">>
Null == 0
Banners == {"X", "Y"}
Screens == {"X", "Y", "none"}
\* minute at which the operator types a command
CmdMinutes == {0}
\* a worker keeps the number of the session that created it while that
\* session runs; a worker left behind by a session that has returned is
\* referenced by nothing and is counted as Orphan
Orphan == MaxSessions + 1

VARIABLES
    browser,             \* this.browser: Null or the id of a launched browser
    page,                \* this.page: Null or the id of the browser owning it
    tesseractWorker,     \* this.tesseractWorker: Null or a worker id
    engines,             \* OCR workers created on which terminate() was not invoked
    isRunning,           \* this.isRunning
    timers,              \* number of live setInterval timers of the scheduler
    recentHashes,        \* this.recentHashes
    lastSentBannerNames, \* this.lastSentBannerNames
    hashCacheSize,       \* config.captureStrategy.hashCacheSize
    ready,               \* the chat client has logged in (ClientReady fired)
    minute,              \* wall clock, new Date().getMinutes()
    liveBrowsers,        \* browsers launched on which close() was not invoked
    sess,                \* the executions of captureAndSendBanners in flight
    span,                \* ticks passed since some session has been in flight
    failures,            \* some session has ended after its navigation failed
    callLog,             \* DedupSpec: isDuplicateImage calls since the last reset
    logging,             \* the operations of the sessions are recorded in opLog
    opLog,               \* captures, waits and sends of the current session
    prevX,               \* image the previous session sent as X, or NoImage
    bannerFile,          \* ./banner-message.txt
    roleId,              \* config.roleId
    ocrText,             \* OcrSpec: the upper-cased text the OCR engine returned
    variant,             \* which captureAndSendBanners the bot runs
    site,                \* HealthSpec: what the checks of the page come upon
    issues,              \* HealthSpec: the issue list passed to performRecovery
    now,                 \* TimingSpec: Date.now(), in units of ten seconds
    lastCaptureTime,     \* this.lastCaptureTime, same unit, 0 before any
    captureTimes,        \* TimingSpec: times of the captures that were sent
    proc,                \* the node process: "running" or "exited"
    monitorLoopRunning,  \* _monitorLoopRunning of the long-lived class
    scheduledMonitorActive   \* _scheduledMonitorActive of that class

vars == <<browser, page, tesseractWorker, engines, isRunning, timers, recentHashes,
          lastSentBannerNames, hashCacheSize, ready, minute, liveBrowsers,
          sess, span, failures, callLog, logging, opLog, prevX, bannerFile,
          roleId, ocrText, variant, site, issues, now, lastCaptureTime,
          captureTimes, proc, monitorLoopRunning, scheduledMonitorActive>>

\* the environment of sendToDiscord and the recording switch
envVars == <<logging, bannerFile, roleId, ocrText, variant, site, issues, now,
             lastCaptureTime, captureTimes, proc, monitorLoopRunning,
             scheduledMonitorActive>>

botVars == <<browser, page, tesseractWorker, engines, isRunning, timers, ready, minute,
             liveBrowsers, sess, span, failures>>

(* ---------------------------- dedup cache ---------------------------- *)
\* md5 of the buffer; distinct contents get distinct digests, a null
\* buffer makes crypto throw and the helper return null
calculateImageHash(img) == IF img = NoImage THEN NoHash ELSE <<"md5", img>>

Includes(seq, h) == \E i \in 1..Len(seq) : seq[i] = h

\* Array.prototype.shift
Shift(seq) == IF Len(seq) = 0 THEN seq ELSE SubSeq(seq, 2, Len(seq))

\* isDuplicateImage without the eviction of the oldest hash
isDuplicateImage_NoEvict(hashes, cap, img) ==
    LET currentHash == calculateImageHash(img) IN
    IF currentHash = NoHash THEN [ret |-> FALSE, hashes |-> hashes]
    ELSE IF Includes(hashes, currentHash) THEN [ret |-> TRUE, hashes |-> hashes]
    ELSE [ret |-> FALSE, hashes |-> Append(hashes, currentHash)]

\* isDuplicateImage evicting with pop() instead of shift()
isDuplicateImage_EvictNewest(hashes, cap, img) ==
    LET currentHash == calculateImageHash(img) IN
    IF currentHash = NoHash THEN [ret |-> FALSE, hashes |-> hashes]
    ELSE IF Includes(hashes, currentHash) THEN [ret |-> TRUE, hashes |-> hashes]
    ELSE LET pushed == Append(hashes, currentHash) IN
         [ret |-> FALSE,
          hashes |-> IF Len(pushed) > cap
                     THEN SubSeq(pushed, 1, Len(pushed) - 1) ELSE pushed]

\* isDuplicateImage that forgets to push the new hash
isDuplicateImage_NoInsert(hashes, cap, img) ==
    LET currentHash == calculateImageHash(img) IN
    IF currentHash = NoHash THEN [ret |-> FALSE, hashes |-> hashes]
    ELSE IF Includes(hashes, currentHash) THEN [ret |-> TRUE, hashes |-> hashes]
    ELSE [ret |-> FALSE, hashes |-> hashes]

\* isDuplicateImage that moves a hit to the newest position (LRU)
isDuplicateImage_RefreshOnHit(hashes, cap, img) ==
    LET currentHash == calculateImageHash(img) IN
    IF currentHash = NoHash THEN [ret |-> FALSE, hashes |-> hashes]
    ELSE IF Includes(hashes, currentHash)
    THEN [ret |-> TRUE,
          hashes |-> Append(SelectSeq(hashes, LAMBDA h : h # currentHash),
                            currentHash)]
    ELSE LET pushed == Append(hashes, currentHash) IN
         [ret |-> FALSE,
          hashes |-> IF Len(pushed) > cap THEN Shift(pushed) ELSE pushed]

\* isDuplicateImage that pushes the hash and never reports a duplicate
isDuplicateImage_AlwaysNew(hashes, cap, img) ==
    LET currentHash == calculateImageHash(img) IN
    IF currentHash = NoHash THEN [ret |-> FALSE, hashes |-> hashes]
    ELSE LET pushed == Append(hashes, currentHash) IN
         [ret |-> FALSE,
          hashes |-> IF Len(pushed) > cap THEN Shift(pushed) ELSE pushed]

\* isDuplicateImage: the value returned and this.recentHashes afterwards
isDuplicateImage(hashes, cap, img) ==
    LET currentHash == calculateImageHash(img) IN
    IF currentHash = NoHash THEN [ret |-> FALSE, hashes |-> hashes]
    ELSE IF Includes(hashes, currentHash) THEN [ret |-> TRUE, hashes |-> hashes]
    ELSE LET pushed == Append(hashes, currentHash) IN
         [ret |-> FALSE,
          hashes |-> IF Len(pushed) > cap THEN Shift(pushed) ELSE pushed]

NoneSent == [X |-> "none", Y |-> "none"]

(* --------------------------- DedupSpec ------------------------------- *)
\* one call of isDuplicateImage on the bot's cache, recorded in callLog
CallIsDuplicateImage(img) ==
    /\ Len(callLog) < MaxCalls
    /\ LET r == isDuplicateImage(recentHashes, hashCacheSize, img) IN
       /\ recentHashes' = r.hashes
       /\ callLog' = Append(callLog,
               [img |-> img, ret |-> r.ret,
                had |-> Includes(recentHashes, calculateImageHash(img)),
                before |-> recentHashes, after |-> r.hashes])
    /\ UNCHANGED <<lastSentBannerNames, hashCacheSize, opLog, prevX>>
    /\ UNCHANGED botVars
    /\ UNCHANGED envVars

\* the reset at the start of a capture session
ResetDedup ==
    /\ recentHashes' = <<>>
    /\ lastSentBannerNames' = NoneSent
    /\ callLog' = <<>>
    /\ UNCHANGED <<hashCacheSize, opLog, prevX>>
    /\ UNCHANGED botVars
    /\ UNCHANGED envVars

(* ------------------------ notification sink -------------------------- *)
\* strings are sequences of characters; these two are whitespace
Whitespace == {" ", "\n"}

\* String.prototype.trim
RECURSIVE TrimLeft(_)
TrimLeft(str) ==
    IF str # <<>> /\ Head(str) \in Whitespace THEN TrimLeft(Tail(str)) ELSE str

RECURSIVE TrimRight(_)
TrimRight(str) ==
    IF str # <<>> /\ str[Len(str)] \in Whitespace
    THEN TrimRight(SubSeq(str, 1, Len(str) - 1)) ELSE str

Trim(str) == TrimRight(TrimLeft(str))

\* the fixed caption used when the file gives none
FallbackCaption == <<"New banner detected!">>

\* the caption file: missing, unreadable (readFileSync throws) or a text
NoFile == [state |-> "missing", text |-> <<>>]
BadFile == [state |-> "unreadable", text |-> <<>>]
TextFile(text) == [state |-> "file", text |-> text]

\* readBannerMessage that returns the file content untrimmed
readBannerMessage_NoTrim(file) ==
    IF file.state = "file"
    THEN IF file.text # <<>> THEN file.text ELSE FallbackCaption
    ELSE FallbackCaption

\* readBannerMessage: existsSync, readFileSync, trim, fallback; a throw is
\* caught and gives the fallback
readBannerMessage(file) ==
    IF file.state = "file"
    THEN LET message == Trim(file.text) IN
         IF message # <<>> THEN message ELSE FallbackCaption
    ELSE FallbackCaption

\* config.roleId: unset, the placeholder of the template, or a role
NoRole == ""
PlaceholderRole == "your_role_id_here"
RoleIds == {NoRole, PlaceholderRole, "role"}

\* the role mention of sendToDiscord, one token, or the empty string
RolePing(role) ==
    IF role # NoRole /\ role # PlaceholderRole THEN <<"<@&role>">> ELSE <<>>

\* the content sendToDiscord passes to channel.send
fullMessage(file, role, message, includeCustomMessage) ==
    IF includeCustomMessage
    THEN Trim(RolePing(role) \o <<" ">> \o readBannerMessage(file)
              \o <<"\n">> \o message \o <<"\n">>)
    ELSE <<>>

\* the Y loop calling sendToDiscord like the X loop, without the false
SendArgs_YLikeX(b) == [message |-> <<>>, includeCustomMessage |-> TRUE]

\* the arguments the probe loops pass to sendToDiscord: X with the default
\* includeCustomMessage, Y with false; the message is empty for both
SendArgs(b) == [message |-> <<>>, includeCustomMessage |-> (b = "X")]

\* the content of the send of banner b
SendContent(b) ==
    fullMessage(bannerFile, roleId, SendArgs(b).message,
                SendArgs(b).includeCustomMessage)

(* --------------------------- classification ------------------------- *)
\* an OCR text is a sequence of letters and spaces (the engine is limited
\* to letters, digits and blanks); "BANNER" stands for its six letters and
\* "A" for any other letter
WordBefore(t, p) == p > 1 /\ t[p - 1] \notin Whitespace
WordAfter(t, q) == q < Len(t) /\ t[q + 1] \notin Whitespace

\* the end of a match of [XY]\s*BANNER that starts at p, or 0
MatchEnd(t, p) ==
    IF t[p] \notin {"X", "Y"} THEN 0
    ELSE LET rest == {q \in (p + 1)..Len(t) : t[q] \notin Whitespace} IN
         IF rest = {} THEN 0
         ELSE LET q == CHOOSE x \in rest : \A y \in rest : x <= y IN
              IF t[q] = "BANNER" THEN q ELSE 0

\* the first match of a set of start positions, as match[0], or null
FirstMatch(t, starts) ==
    IF starts = {} THEN <<>>
    ELSE LET p == CHOOSE x \in starts : \A y \in starts : x <= y IN
         SubSeq(t, p, MatchEnd(t, p))

\* extractBannerLabel: the first match of /\b([XY])\s*BANNER\b/
extractBannerLabel(t) ==
    FirstMatch(t, {p \in 1..Len(t) :
                     /\ MatchEnd(t, p) # 0
                     /\ ~WordBefore(t, p)
                     /\ ~WordAfter(t, MatchEnd(t, p))})

\* ocrBannerName of the bounded-retry class: the first match of
\* /([XY])\s*BANNER/i, trimmed and upper-cased
ocrBannerName(t) ==
    Trim(FirstMatch(t, {p \in 1..Len(t) : MatchEnd(t, p) # 0}))

\* the label the probe of banner b compares with: 'X BANNER', 'Y BANNER'
LabelText(b) == <<b, " ", "BANNER">>

(* ----------------------------- recording ----------------------------- *)
Entry(op, b, out, img, ok, content) ==
    [op |-> op, banner |-> b, out |-> out, img |-> img, ok |-> ok,
     content |-> content]

\* the operations es are appended to the record of the session
Record(es) ==
    /\ logging => Len(opLog) + Len(es) <= MaxLog
    /\ opLog' = IF logging THEN opLog \o es ELSE opLog

\* positions of the sends of banner b in a record
SendsOf(l, b) == {i \in 1..Len(l) : l[i].op = "send" /\ l[i].banner = b}

\* the image a recorded send carries: the full capture right before it
SentImage(l, i) == l[i - 1].img

\* the image the session of record l sent as X, or NoImage
XImageOf(l) ==
    IF SendsOf(l, "X") = {} THEN NoImage
    ELSE SentImage(l, CHOOSE i \in SendsOf(l, "X") : TRUE)

(* ------------------------ capture sessions --------------------------- *)
\* the frame a screenshot shows is an input of the capture
Pixels(frame) == CASE frame = "X" -> 1 [] frame = "Y" -> 2 [] OTHER -> 3

BannerLabel(b) == IF b = "X" THEN "X BANNER" ELSE "Y BANNER"

\* labels the OCR and extractBannerLabel can produce for a frame
OcrLabels(frame) ==
    IF frame = "none" THEN {"none"} ELSE {BannerLabel(frame), "none"}

IdleSess ==
    [pc |-> "idle", by |-> "none", banner |-> "X", navAttempts |-> 0,
     after |-> "return", navFailed |-> FALSE, errSent |-> FALSE,
     dispatched |-> {}, attempts |-> 0, recognized |-> FALSE,
     wasRunning |-> FALSE, since |-> 0]

InFlight == {s \in Sessions : sess[s].pc # "idle"}
AllIdle == InFlight = {}
FreeSlots == Sessions \ InFlight
FreeSlot == CHOOSE s \in FreeSlots : \A t \in FreeSlots : s <= t

\* captureAndSendBanners is called: it runs up to the first await of
\* initializeBrowser
Started(s, by) ==
    [sess EXCEPT ![s] = [IdleSess EXCEPT !.pc = "launch", !.by = by]]

\* the bot's handles together with the record of the session that runs
Mach(s) ==
    [browser |-> browser, page |-> page, worker |-> tesseractWorker,
     engines |-> engines,
     live |-> liveBrowsers, r |-> sess[s]]

\* the handle is usable: non-null and its browser was not closed
Usable(h) == h # Null /\ h \in liveBrowsers

\* a catch block that goes on without reporting the error
OnSessionError_NoReport(r) == [r EXCEPT !.pc = "catch", !.errSent = FALSE]

\* the catch block of captureAndSendBanners: sendErrorToDiscord is called
\* and awaited
OnSessionError(r) == [r EXCEPT !.pc = "catch", !.errSent = TRUE]

\* closeBrowser after its last await: the three handles are nulled; the
\* caller is the catch block of initializeBrowser, which rethrows into the
\* catch block of the session, or the finally block, which returns, or
\* stop, which goes on to client.destroy
CloseEnd(m) ==
    LET n == [m EXCEPT !.browser = Null, !.page = Null, !.worker = Null] IN
    IF m.r.after = "rethrow"
    THEN [n EXCEPT !.r = OnSessionError(m.r)]
    ELSE IF m.r.after = "stop"
    THEN [n EXCEPT !.r.pc = "destroy"]
    ELSE [n EXCEPT !.r.pc = "returned"]

\* closeBrowser at "if (this.browser)": close is invoked and awaited
CloseFromBrowser(m) ==
    IF m.browser # Null
    THEN [m EXCEPT !.live = @ \ {m.browser}, !.r.pc = "closeB"]
    ELSE CloseEnd(m)

\* closeBrowser at "if (this.page && !this.page.isClosed())"
CloseFromPage(m) ==
    IF m.page # Null /\ m.page \in m.live
    THEN [m EXCEPT !.r.pc = "closeP"]
    ELSE CloseFromBrowser(m)

\* closeBrowser from its entry: terminate is invoked and awaited when the
\* handle holds a worker
closeBrowser(m, after) ==
    LET e == [m EXCEPT !.r.after = after, !.r.navAttempts = 0] IN
    IF e.worker # Null
    THEN [e EXCEPT !.engines = @ \ {e.worker}, !.r.pc = "closeW"]
    ELSE CloseFromPage(e)

\* the catch block of initializeBrowser: closeBrowser, then rethrow
InitFailed(m) == closeBrowser(m, "rethrow")

\* the finally block of captureAndSendBanners: closeBrowser, then return
Finally(m) == closeBrowser(m, "return")

\* a probe loop without the break after the banner was handled
AfterBanner_NoBreak(m) == [m EXCEPT !.r.pc = "delay"]

\* after one banner is done: X is followed by the Y loop, Y by the finally
AfterBanner(m) ==
    IF m.r.banner = "X" THEN [m EXCEPT !.r.pc = "probe", !.r.banner = "Y"]
    ELSE Finally(m)

\* the session step ends with the handles and the session record of m; a
\* session that has returned frees its slot
Apply(s, m) ==
    /\ browser' = m.browser
    /\ page' = m.page
    /\ tesseractWorker' = m.worker
    /\ engines' = IF m.r.pc = "returned" /\ s \in m.engines
                  THEN (m.engines \ {s}) \cup {Orphan}
                  ELSE m.engines
    /\ liveBrowsers' = m.live
    /\ IF m.r.pc = "returned"
       THEN /\ sess' = [sess EXCEPT ![s] = IdleSess]
            /\ failures' = (failures \/ m.r.navFailed)
            /\ span' = IF InFlight = {s} THEN 0 ELSE span
            /\ prevX' = IF logging THEN XImageOf(opLog') ELSE prevX
       ELSE /\ sess' = [sess EXCEPT ![s] = m.r]
            /\ UNCHANGED <<failures, span, prevX>>
    /\ UNCHANGED <<isRunning, timers, hashCacheSize, ready, minute, callLog>>
    /\ UNCHANGED envVars

\* this.browser = await puppeteer.launch(...)
Launch(s) ==
    /\ sess[s].pc = "launch"
    /\ Record(<<>>)
    /\ \E ok \in BOOLEAN :
         Apply(s, IF ok
                  THEN [Mach(s) EXCEPT !.browser = s, !.live = @ \cup {s},
                                       !.r.pc = "newPage"]
                  ELSE InitFailed(Mach(s)))
    /\ UNCHANGED <<recentHashes, lastSentBannerNames>>

\* this.page = await this.browser.newPage(); stealth, user agent, viewport
NewPage(s) ==
    /\ sess[s].pc = "newPage"
    /\ Record(<<>>)
    /\ \E ok \in BOOLEAN :
         Apply(s, IF ok /\ Usable(browser)
                  THEN [Mach(s) EXCEPT !.page = browser, !.r.pc = "nav"]
                  ELSE InitFailed(Mach(s)))
    /\ UNCHANGED <<recentHashes, lastSentBannerNames>>

\* one iteration of the loop of loadLivestream: page.goto, on failure wait
\* and retry while attempts < maxAttempts, else throw
NavAttempt(s) ==
    /\ sess[s].pc = "nav"
    /\ Record(<<>>)
    /\ LET n == sess[s].navAttempts + 1 IN
       \E ok \in BOOLEAN :
         Apply(s, IF ok /\ Usable(page)
                  THEN [Mach(s) EXCEPT !.r.pc = "settle", !.r.navAttempts = 0]
                  ELSE IF n < maxAttempts
                  THEN [Mach(s) EXCEPT !.r.navAttempts = n]
                  ELSE InitFailed([Mach(s) EXCEPT !.r.navFailed = TRUE]))
    /\ UNCHANGED <<recentHashes, lastSentBannerNames>>

\* a session start that keeps the dedup state of the session before
Settle_NoReset(s) ==
    /\ sess[s].pc = "settle"
    /\ Record(<<>>)
    /\ UNCHANGED <<recentHashes, lastSentBannerNames>>
    /\ Apply(s, [Mach(s) EXCEPT !.r.pc = IF tesseractWorker # Null
                                         THEN "probe" ELSE "createWorker"])

\* overlays, video start and the 5 s wait are over: initializeBrowser
\* returns, the session resets the dedup state and calls
\* initTesseractWorker, which returns at once when a worker exists; then
\* the first probe is taken
Settle(s) ==
    /\ sess[s].pc = "settle"
    /\ Record(<<>>)
    /\ recentHashes' = <<>>
    /\ lastSentBannerNames' = NoneSent
    /\ Apply(s, [Mach(s) EXCEPT !.r.pc = IF tesseractWorker # Null
                                         THEN "probe" ELSE "createWorker"])

\* initTesseractWorker: createWorker has settled. The worker it made is
\* assigned to the handle and the setup calls follow; an error is caught
\* and nulls the handle
CreateWorker(s) ==
    /\ sess[s].pc = "createWorker"
    /\ Record(<<>>)
    /\ \E ok \in BOOLEAN :
         Apply(s, IF ok
                  THEN [Mach(s) EXCEPT !.worker = s, !.engines = @ \cup {s},
                                       !.r.pc = "setupWorker"]
                  ELSE [Mach(s) EXCEPT !.worker = Null, !.r.pc = "probe"])
    /\ UNCHANGED <<recentHashes, lastSentBannerNames>>

\* initTesseractWorker: reinitialize and setParameters are called on the
\* handle; when one of them throws, or the handle was nulled meanwhile,
\* the catch block nulls the handle and the worker is not terminated
SetupWorker(s) ==
    /\ sess[s].pc = "setupWorker"
    /\ Record(<<>>)
    /\ \E ok \in BOOLEAN :
         Apply(s, IF ok /\ tesseractWorker # Null
                  THEN [Mach(s) EXCEPT !.r.pc = "probe"]
                  ELSE [Mach(s) EXCEPT !.worker = Null, !.r.pc = "probe"])
    /\ UNCHANGED <<recentHashes, lastSentBannerNames>>

\* what a probe yields: the capture failed, the OCR engine threw (text
\* '', no label), or the label extractBannerLabel found
ProbeOutcome(captured, ocrOk, label) ==
    IF ~captured THEN "capture failed"
    ELSE IF ~ocrOk THEN "ocr error"
    ELSE label

\* a probe loop for X that moves on to Y as soon as it reads 'Y BANNER'
Probe_SwitchOnOther(s) ==
    /\ sess[s].pc = "probe"
    /\ \E frame \in Screens, captured \in BOOLEAN, ocrOk \in BOOLEAN :
         \E label \in OcrLabels(frame) :
           LET out == ProbeOutcome(captured /\ Usable(page), ocrOk, label) IN
           /\ Record(<<Entry("roi", sess[s].banner, out, NoImage,
                             captured /\ Usable(page), <<>>)>>)
           /\ Apply(s, IF out = BannerLabel(sess[s].banner)
                       THEN [Mach(s) EXCEPT !.r.pc = "full"]
                       ELSE IF out = BannerLabel("Y")
                       THEN [Mach(s) EXCEPT !.r.pc = "full", !.r.banner = "Y"]
                       ELSE [Mach(s) EXCEPT !.r.pc = "delay"])
    /\ UNCHANGED <<recentHashes, lastSentBannerNames>>

\* a probe whose capture or OCR failure is thrown into the catch block of
\* the session
Probe_ThrowOnFail(s) ==
    /\ sess[s].pc = "probe"
    /\ \E frame \in Screens, captured \in BOOLEAN, ocrOk \in BOOLEAN :
         \E label \in OcrLabels(frame) :
           LET out == ProbeOutcome(captured /\ Usable(page), ocrOk, label) IN
           /\ Record(<<Entry("roi", sess[s].banner, out, NoImage,
                             captured /\ Usable(page), <<>>)>>)
           /\ Apply(s, IF out = BannerLabel(sess[s].banner)
                       THEN [Mach(s) EXCEPT !.r.pc = "full"]
                       ELSE IF out \in {"capture failed", "ocr error"}
                       THEN [Mach(s) EXCEPT !.r = OnSessionError(@)]
                       ELSE [Mach(s) EXCEPT !.r.pc = "delay"])
    /\ UNCHANGED <<recentHashes, lastSentBannerNames>>

\* one probe: captureRegionForOcr, ocrTextFromImage, extractBannerLabel;
\* a failed capture or a label other than the expected one waits
\* attemptDelayMs before the next probe
Probe(s) ==
    /\ sess[s].pc = "probe"
    /\ \E frame \in Screens, captured \in BOOLEAN, ocrOk \in BOOLEAN :
         \E label \in OcrLabels(frame) :
           LET out == ProbeOutcome(captured /\ Usable(page), ocrOk, label) IN
           /\ Record(<<Entry("roi", sess[s].banner, out, NoImage,
                             captured /\ Usable(page), <<>>)>>)
           /\ Apply(s, [Mach(s) EXCEPT !.r.pc =
                          IF out = BannerLabel(sess[s].banner)
                          THEN "full" ELSE "delay"])
    /\ UNCHANGED <<recentHashes, lastSentBannerNames>>

\* the attemptDelayMs timer of a probe loop fires: next iteration
Delay(s) ==
    /\ sess[s].pc = "delay"
    /\ Record(<<Entry("delay", sess[s].banner, "", NoImage, TRUE, <<>>)>>)
    /\ Apply(s, [Mach(s) EXCEPT !.r.pc = "probe"])
    /\ UNCHANGED <<recentHashes, lastSentBannerNames>>

\* captureBannerScreenshot after a match, then the name check and
\* isDuplicateImage; a new image goes to sendToDiscord
Full(s) ==
    /\ sess[s].pc = "full"
    /\ LET b == sess[s].banner IN
       \E frame \in Screens, captured \in BOOLEAN :
         IF ~(captured /\ Usable(page))
         THEN /\ Record(<<Entry("full", b, "capture failed", NoImage,
                                FALSE, <<>>)>>)
              /\ Apply(s, [Mach(s) EXCEPT !.r.pc = "delay"])
              /\ UNCHANGED recentHashes
         ELSE /\ Record(<<Entry("full", b, "", Pixels(frame), TRUE, <<>>)>>)
              /\ IF lastSentBannerNames[b] # BannerLabel(b)
                 THEN LET r == isDuplicateImage(recentHashes, hashCacheSize,
                                                Pixels(frame)) IN
                      /\ recentHashes' = r.hashes
                      /\ Apply(s, IF r.ret THEN AfterBanner(Mach(s))
                                  ELSE [Mach(s) EXCEPT
                                            !.r.pc = "send",
                                            !.r.dispatched = @ \cup {b}])
                 ELSE /\ Apply(s, AfterBanner(Mach(s)))
                      /\ UNCHANGED recentHashes
    /\ UNCHANGED lastSentBannerNames

\* a send after which the loop of the banner goes on
Send_Continue(s) ==
    /\ sess[s].pc = "send"
    /\ \E delivered \in BOOLEAN :
         Record(<<Entry("send", sess[s].banner, "", NoImage, delivered,
                        SendContent(sess[s].banner))>>)
    /\ Apply(s, [Mach(s) EXCEPT !.r.pc = "delay"])
    /\ UNCHANGED <<recentHashes, lastSentBannerNames>>

\* a send that is attempted again when it fails
Send_RetryOnFail(s) ==
    /\ sess[s].pc = "send"
    /\ \E delivered \in BOOLEAN :
         /\ Record(<<Entry("send", sess[s].banner, "", NoImage, delivered,
                           SendContent(sess[s].banner))>>)
         /\ IF delivered
            THEN /\ lastSentBannerNames' =
                       [lastSentBannerNames EXCEPT ![sess[s].banner] =
                                           BannerLabel(sess[s].banner)]
                 /\ Apply(s, AfterBanner(Mach(s)))
            ELSE /\ UNCHANGED lastSentBannerNames
                 /\ Apply(s, Mach(s))
    /\ UNCHANGED recentHashes

\* sendToDiscord returns (it catches its own errors: a failed channel
\* fetch or send delivers nothing), then the memo is set
Send(s) ==
    /\ sess[s].pc = "send"
    /\ \E delivered \in BOOLEAN :
         Record(<<Entry("send", sess[s].banner, "", NoImage, delivered,
                        SendContent(sess[s].banner))>>)
    /\ lastSentBannerNames' =
           [lastSentBannerNames EXCEPT ![sess[s].banner] =
                                           BannerLabel(sess[s].banner)]
    /\ Apply(s, AfterBanner(Mach(s)))
    /\ UNCHANGED recentHashes

\* sendErrorToDiscord returns in the catch block; the finally block runs
Catch(s) ==
    /\ sess[s].pc = "catch"
    /\ Record(<<>>)
    /\ Apply(s, Finally(Mach(s)))
    /\ UNCHANGED <<recentHashes, lastSentBannerNames>>

\* closeBrowser: terminate has returned, the worker handle is nulled
CloseW(s) ==
    /\ sess[s].pc = "closeW"
    /\ Record(<<>>)
    /\ Apply(s, CloseFromPage([Mach(s) EXCEPT !.worker = Null]))
    /\ UNCHANGED <<recentHashes, lastSentBannerNames>>

\* closeBrowser: page.close has returned
CloseP(s) ==
    /\ sess[s].pc = "closeP"
    /\ Record(<<>>)
    /\ Apply(s, CloseFromBrowser(Mach(s)))
    /\ UNCHANGED <<recentHashes, lastSentBannerNames>>

\* closeBrowser: browser.close has returned
CloseB(s) ==
    /\ sess[s].pc = "closeB"
    /\ Record(<<>>)
    /\ Apply(s, CloseEnd(Mach(s)))
    /\ UNCHANGED <<recentHashes, lastSentBannerNames>>

(* --------------------- attempt-bounded sessions ---------------------- *)
\* the bounded-retry class (bot.js, first class) tries each banner
\* RetryTries times; the probe loops of the memory-fix notes are the loops
\* of the long-lived class capped at MAX_ATTEMPTS
AttemptBound == IF variant = "retry5" THEN RetryTries ELSE MAX_ATTEMPTS

\* what a bounded session leaves alone
BoundedFrame ==
    /\ UNCHANGED <<browser, page, tesseractWorker, engines, timers,
                   hashCacheSize, ready, minute, liveBrowsers, span, failures,
                   callLog, opLog, prevX>>
    /\ UNCHANGED envVars

\* captureAndSendBanners is called; the capped loops run in the session of
\* the long-lived class, which first resets the dedup state
StartBounded ==
    /\ variant \in {"retry5", "capped"}
    /\ AllIdle
    /\ sess' = [sess EXCEPT ![FreeSlot] =
                   [IdleSess EXCEPT !.pc = "b_probe", !.by = "cmd"]]
    /\ IF variant = "capped"
       THEN recentHashes' = <<>> /\ lastSentBannerNames' = NoneSent
       ELSE UNCHANGED <<recentHashes, lastSentBannerNames>>
    /\ UNCHANGED isRunning
    /\ BoundedFrame

\* the !capture-banners command of the bounded-retry class: it pauses the
\* scheduler, remembers whether it was running and calls
\* captureAndSendBanners, whatever else is in progress
CmdCaptureBanners ==
    /\ variant = "retry5"
    /\ FreeSlots # {}
    /\ sess' = [sess EXCEPT ![FreeSlot] =
                   [IdleSess EXCEPT !.pc = "b_probe", !.by = "capture",
                                    !.wasRunning = isRunning]]
    /\ isRunning' = FALSE
    /\ UNCHANGED <<recentHashes, lastSentBannerNames>>
    /\ BoundedFrame

\* the command's captureAndSendBanners has returned in this step: the
\* scheduler is resumed when it was running before
Resume(s) ==
    isRunning' = IF /\ sess[s].by = "capture"
                    /\ sess'[s].pc = "idle"
                    /\ sess[s].wasRunning
                 THEN TRUE
                 ELSE isRunning

\* the bounded-retry class after the Y loop: the hash cache is cleared and
\* the session returns; the capped session just returns
BoundedReturn(s) ==
    /\ sess' = [sess EXCEPT ![s] = IdleSess]
    /\ recentHashes' = IF variant = "retry5" THEN <<>> ELSE recentHashes

\* a probe loop has ended, by break or by running out of attempts: the
\* bounded-retry class goes on with Y after X; the notes return when
\* xAttempts >= MAX_ATTEMPTS and go on with Y otherwise
AfterLoop(s, r) ==
    IF r.banner = "X" /\ ~(variant = "capped" /\ r.attempts >= MAX_ATTEMPTS)
    THEN /\ sess' = [sess EXCEPT ![s] =
                        [r EXCEPT !.pc = "b_probe", !.banner = "Y",
                                  !.attempts = 0, !.recognized = FALSE]]
         /\ UNCHANGED recentHashes
    ELSE BoundedReturn(s)

\* one attempt: the capture, the OCR and the comparison of the label; the
\* bounded-retry class captures the banner area at once and sends it when
\* the name is new, the capped loop goes on to the full capture
BoundedProbe(s) ==
    /\ sess[s].pc = "b_probe"
    /\ LET b == sess[s].banner
           r == [sess[s] EXCEPT !.attempts = @ + 1]
       IN \E frame \in Screens, captured \in BOOLEAN, ocrOk \in BOOLEAN :
            \E label \in OcrLabels(frame) :
              IF ProbeOutcome(captured, ocrOk, label) # BannerLabel(b)
              THEN /\ sess' = [sess EXCEPT ![s] = [r EXCEPT !.pc = "b_delay"]]
                   /\ UNCHANGED recentHashes
              ELSE IF variant = "capped"
              THEN /\ sess' = [sess EXCEPT ![s] =
                                  [r EXCEPT !.pc = "b_full",
                                            !.recognized = TRUE]]
                   /\ UNCHANGED recentHashes
              ELSE IF lastSentBannerNames[b] # BannerLabel(b)
              THEN /\ sess' = [sess EXCEPT ![s] =
                                  [r EXCEPT !.pc = "b_send",
                                            !.recognized = TRUE,
                                            !.dispatched = @ \cup {b}]]
                   /\ UNCHANGED recentHashes
              ELSE AfterLoop(s, [r EXCEPT !.recognized = TRUE])
    /\ UNCHANGED lastSentBannerNames
    /\ Resume(s)
    /\ BoundedFrame

\* the wait after a miss is over: the loop condition is tested again
BoundedDelay(s) ==
    /\ sess[s].pc = "b_delay"
    /\ IF sess[s].attempts < AttemptBound
       THEN /\ sess' = [sess EXCEPT ![s].pc = "b_probe"]
            /\ UNCHANGED recentHashes
       ELSE AfterLoop(s, sess[s])
    /\ UNCHANGED lastSentBannerNames
    /\ Resume(s)
    /\ BoundedFrame

\* the full capture of the capped loop, then the name check and
\* isDuplicateImage
BoundedFull(s) ==
    /\ sess[s].pc = "b_full"
    /\ LET b == sess[s].banner IN
       \E frame \in Screens, captured \in BOOLEAN :
         IF ~captured
         THEN /\ sess' = [sess EXCEPT ![s].pc = "b_delay"]
              /\ UNCHANGED recentHashes
         ELSE IF lastSentBannerNames[b] # BannerLabel(b)
         THEN LET d == isDuplicateImage(recentHashes, hashCacheSize,
                                        Pixels(frame)) IN
              IF d.ret
              THEN AfterLoop(s, sess[s])
              ELSE /\ sess' = [sess EXCEPT ![s].pc = "b_send",
                                          ![s].dispatched = @ \cup {b}]
                   /\ recentHashes' = d.hashes
         ELSE AfterLoop(s, sess[s])
    /\ UNCHANGED lastSentBannerNames
    /\ Resume(s)
    /\ BoundedFrame

\* sendToDiscord has returned: the memo is set and the loop is left
BoundedSend(s) ==
    /\ sess[s].pc = "b_send"
    /\ lastSentBannerNames' =
           [lastSentBannerNames EXCEPT ![sess[s].banner] =
                                           BannerLabel(sess[s].banner)]
    /\ AfterLoop(s, sess[s])
    /\ Resume(s)
    /\ BoundedFrame

BoundedStep(s) ==
    \/ BoundedProbe(s) \/ BoundedDelay(s) \/ BoundedFull(s) \/ BoundedSend(s)

SessionStep(s) ==
    \/ Launch(s) \/ NewPage(s) \/ NavAttempt(s) \/ Settle(s)
    \/ CreateWorker(s) \/ SetupWorker(s) \/ Probe(s) \/ Delay(s) \/ Full(s) \/ Send(s)
    \/ Catch(s) \/ CloseW(s) \/ CloseP(s) \/ CloseB(s)

(* --------------------- scheduler and commands ------------------------ *)
\* a minute test that forgets the second configured minute
ShouldCapture_OnlyX(m) == m = xBannerMinute

\* the minute test of the timer callback
ShouldCapture(m) == m = xBannerMinute \/ m = yBannerMinute

\* Events.ClientReady: startScheduledMonitoring clears an existing timer,
\* sets isRunning and installs the one-minute timer
ClientReady ==
    /\ ~ready
    /\ ready' = TRUE
    /\ isRunning' = TRUE
    /\ timers' = 1
    /\ UNCHANGED <<browser, page, tesseractWorker, engines, recentHashes,
                   lastSentBannerNames, hashCacheSize, minute, liveBrowsers,
                   sess, span, failures, callLog, opLog, prevX>>
    /\ UNCHANGED envVars

\* a minute passes; the timer callback, if installed, reads the clock and
\* calls captureAndSendBanners at the two configured minutes
Tick ==
    /\ AllIdle \/ span < MaxSpan
    /\ LET m == (minute + 1) % MinutesPerHour
           start == timers > 0 /\ isRunning /\ ShouldCapture(m)
       IN /\ start => FreeSlots # {}
          /\ minute' = m
          /\ sess' = IF start THEN Started(FreeSlot, "tick") ELSE sess
          /\ opLog' = IF start /\ logging THEN <<>> ELSE opLog
    /\ span' = IF AllIdle THEN 0 ELSE span + 1
    /\ UNCHANGED <<browser, page, tesseractWorker, engines, isRunning, timers,
                   recentHashes, lastSentBannerNames, hashCacheSize, ready,
                   liveBrowsers, failures, callLog, prevX>>
    /\ UNCHANGED envVars

\* the operator sends !test: the message handler calls captureAndSendBanners
CmdTest ==
    /\ ready
    /\ minute \in CmdMinutes
    /\ AllIdle
    /\ sess' = Started(FreeSlot, "cmd")
    /\ opLog' = IF logging THEN <<>> ELSE opLog
    /\ UNCHANGED <<browser, page, tesseractWorker, engines, isRunning, timers,
                   recentHashes, lastSentBannerNames, hashCacheSize, ready,
                   minute, liveBrowsers, span, failures, callLog, prevX>>
    /\ UNCHANGED envVars

(* ------------------- health check and recovery ---------------------- *)
\* strings are sequences of words; str.includes(key)
StrIncludes(str, key) ==
    \E p \in 0..(Len(str) - Len(key)) :
        \A k \in 1..Len(key) : str[p + k] = key[k]

\* the issues performHealthCheck pushes
IssueUnavailable == <<"Browser", "or", "page", "not", "available">>
IssueOffSite == <<"Not", "on", "YouTube", "page">>
IssueNoUrl == <<"Cannot", "access", "page", "URL">>
IssueNoVideo == <<"Video", "element", "not", "found">>
IssueVideoStuck == <<"Video", "not", "working", "properly">>
IssueVideoUnknown == <<"Cannot", "check", "video", "status">>
IssueErrorPage == <<"YouTube", "error", "page", "detected">>
IssueErrorUnknown == <<"Cannot", "check", "for", "errors">>
IssueCheckFailed == <<"Health", "check", "failed:", "message">>

AllIssues ==
    <<IssueUnavailable, IssueOffSite, IssueNoUrl, IssueNoVideo,
      IssueVideoStuck, IssueVideoUnknown, IssueErrorPage, IssueErrorUnknown,
      IssueCheckFailed>>

\* the issue lists a caller can pass: the issues in S, in the order above
ListOf(S) ==
    LET Test(x) == x \in S IN SelectSeq(AllIssues, Test)

IssueLists ==
    {ListOf(S) : S \in SUBSET {AllIssues[i] : i \in 1..Len(AllIssues)}}

\* what the checks come upon: the handles ("ok", page closed, page null,
\* browser and page null), the URL of the page, the outcome of the
\* page.evaluate of the video check and of the one of checkForYouTubeError.
\* Without a page the URL cannot be read; without an open page both
\* evaluations throw
HealthySite ==
    [handles |-> "ok", url |-> "site", video |-> "playing",
     errors |-> "clean"]

Sites ==
    {st \in [handles : {"ok", "closed", "no page", "none"},
             url : {"site", "other", "unreadable"},
             video : {"playing", "stalled", "missing", "throws"},
             errors : {"clean", "marker", "throws"}] :
        /\ (st.url = "unreadable") <=> (st.handles \in {"no page", "none"})
        /\ st.handles # "ok" => (st.video = "throws" /\ st.errors = "throws")}

NoHealth == site = HealthySite /\ issues = <<>>

\* checkForYouTubeError: an error of the evaluation is caught and gives
\* false
checkForYouTubeError(st) == st.errors = "marker"

\* a health check that stops at the first failing check
performHealthCheck_FirstOnly(st) ==
    LET found ==
          (IF st.handles # "ok" THEN <<IssueUnavailable>> ELSE <<>>)
          \o (CASE st.url = "unreadable" -> <<IssueNoUrl>>
                [] st.url = "other" -> <<IssueOffSite>>
                [] OTHER -> <<>>)
          \o (CASE st.video = "throws" -> <<IssueVideoUnknown>>
                [] st.video = "missing" -> <<IssueNoVideo>>
                [] st.video = "stalled" -> <<IssueVideoStuck>>
                [] OTHER -> <<>>)
          \o (IF checkForYouTubeError(st) THEN <<IssueErrorPage>> ELSE <<>>)
        first == IF found = <<>> THEN <<>> ELSE <<found[1]>>
    IN [isHealthy |-> Len(first) = 0, issues |-> first]

\* performHealthCheck: the four checks one after the other, each pushing
\* its issue
performHealthCheck(st) ==
    LET found ==
          (IF st.handles # "ok" THEN <<IssueUnavailable>> ELSE <<>>)
          \o (CASE st.url = "unreadable" -> <<IssueNoUrl>>
                [] st.url = "other" -> <<IssueOffSite>>
                [] OTHER -> <<>>)
          \o (CASE st.video = "throws" -> <<IssueVideoUnknown>>
                [] st.video = "missing" -> <<IssueNoVideo>>
                [] st.video = "stalled" -> <<IssueVideoStuck>>
                [] OTHER -> <<>>)
          \o (IF checkForYouTubeError(st) THEN <<IssueErrorPage>> ELSE <<>>)
    IN [isHealthy |-> Len(found) = 0, issues |-> found]

\* issues.some(issue => issue.includes(key))
SomeIncludes(list, key) ==
    \E i \in 1..Len(list) : StrIncludes(list[i], key)

\* a recovery that restarts the browser for a video issue too
performRecovery_RestartOnVideo(list, st, gotoOk) ==
    LET nav == SomeIncludes(list, <<"Not", "on", "YouTube", "page">>)
        thrown == nav /\ (st.handles # "ok" \/ ~gotoOk)
        video == \/ SomeIncludes(list, <<"Video", "element", "not", "found">>)
                 \/ SomeIncludes(list, <<"Video", "not", "working">>)
    IN (IF SomeIncludes(list, <<"YouTube", "error", "page">>)
        THEN <<"refreshPage">> ELSE <<>>)
       \o (IF video THEN <<"startVideoEnhanced">> ELSE <<>>)
       \o (IF ~nav \/ st.handles \in {"no page", "none"} THEN <<>>
           ELSE IF thrown THEN <<"page.goto">>
           ELSE <<"page.goto", "handleYouTubeOverlaysEnhanced",
                  "startVideoEnhanced">>)
       \o (IF ~thrown /\ (video \/ SomeIncludes(list, IssueUnavailable))
           THEN <<"restartBrowser">> ELSE <<>>)
       \o (IF thrown THEN <<"sendErrorToDiscord">> ELSE <<>>)

\* performRecovery: the calls it makes, in order. refreshPage,
\* startVideoEnhanced and handleYouTubeOverlaysEnhanced catch their own
\* errors; page.goto throws without a page, on a closed page or when the
\* navigation fails, and the catch block then reports the error
performRecovery(list, st, gotoOk) ==
    LET nav == SomeIncludes(list, <<"Not", "on", "YouTube", "page">>)
        thrown == nav /\ (st.handles # "ok" \/ ~gotoOk)
    IN (IF SomeIncludes(list, <<"YouTube", "error", "page">>)
        THEN <<"refreshPage">> ELSE <<>>)
       \o (IF \/ SomeIncludes(list, <<"Video", "element", "not", "found">>)
              \/ SomeIncludes(list, <<"Video", "not", "working">>)
           THEN <<"startVideoEnhanced">> ELSE <<>>)
       \o (IF ~nav \/ st.handles \in {"no page", "none"} THEN <<>>
           ELSE IF thrown THEN <<"page.goto">>
           ELSE <<"page.goto", "handleYouTubeOverlaysEnhanced",
                  "startVideoEnhanced">>)
       \o (IF ~thrown /\ SomeIncludes(list, IssueUnavailable)
           THEN <<"restartBrowser">> ELSE <<>>)
       \o (IF thrown THEN <<"sendErrorToDiscord">> ELSE <<>>)

\* the calls as entries of the record
CallEntries(calls) ==
    [i \in 1..Len(calls) |-> Entry(calls[i], "", "", NoImage, TRUE, <<>>)]

HealthFrame ==
    /\ UNCHANGED <<recentHashes, lastSentBannerNames, hashCacheSize, callLog,
                   prevX, logging, bannerFile, roleId, ocrText, variant, site,
                   now, lastCaptureTime, captureTimes, proc,
                   monitorLoopRunning, scheduledMonitorActive>>
    /\ UNCHANGED botVars

\* monitorLoop: the periodic health check
CallPerformHealthCheck ==
    /\ opLog = <<>>
    /\ LET h == performHealthCheck(site) IN
       /\ issues' = h.issues
       /\ opLog' = <<Entry("performHealthCheck", "", "", NoImage,
                           h.isHealthy, <<>>)>>
    /\ HealthFrame

\* monitorLoop: the health check found issues and performRecovery is
\* called with them
MonitorRecovery ==
    /\ Len(opLog) = 1
    /\ opLog[1].op = "performHealthCheck" /\ ~opLog[1].ok
    /\ \E gotoOk \in BOOLEAN :
         opLog' = opLog
                  \o <<Entry("performRecovery", "", "", NoImage, TRUE, <<>>)>>
                  \o CallEntries(performRecovery(issues, site, gotoOk))
    /\ UNCHANGED issues
    /\ HealthFrame

\* performRecovery called with any list of issues
CallPerformRecovery(list) ==
    /\ opLog = <<>>
    /\ issues' = list
    /\ \E gotoOk \in BOOLEAN :
         opLog' = <<Entry("performRecovery", "", "", NoImage, TRUE, <<>>)>>
                  \o CallEntries(performRecovery(list, site, gotoOk))
    /\ HealthFrame

(* ------------------------- capture spacing -------------------------- *)
\* the clock starts late enough for the first captureSingleBanner to pass
\* its test against lastCaptureTime = 0
NoTiming ==
    now = minTimeBetweenCaptures /\ lastCaptureTime = 0 /\ captureTimes = <<>>

\* no monitorLoop and no scheduler has been started
NoMonitor == monitorLoopRunning = FALSE /\ scheduledMonitorActive = FALSE

TimingFrame ==
    UNCHANGED <<browser, page, tesseractWorker, engines, isRunning, timers,
                hashCacheSize, ready, minute, liveBrowsers, span, failures,
                callLog, opLog, prevX, logging, bannerFile, roleId, ocrText,
                variant, site, issues, proc, monitorLoopRunning,
                scheduledMonitorActive>>

\* ten seconds pass; the five-second timer of a waiting command fires
\* before the second of two such steps
Advance ==
    /\ now < MaxTime
    /\ \A s \in Sessions : sess[s].pc = "a_wait" => now = sess[s].since
    /\ now' = now + 1
    /\ UNCHANGED <<recentHashes, lastSentBannerNames, sess, lastCaptureTime,
                   captureTimes>>
    /\ TimingFrame

\* captureSingleBanner(b) with frame on the screen: too soon after the
\* last capture it returns false; else the area is captured, a duplicate
\* is announced and not sent, a new image is sent and lastCaptureTime set
captureSingleBanner(b, frame) ==
    IF now - lastCaptureTime < minTimeBetweenCaptures
    THEN UNCHANGED <<recentHashes, lastCaptureTime, captureTimes>>
    ELSE LET d == isDuplicateImage(recentHashes, hashCacheSize,
                                   Pixels(frame)) IN
         /\ recentHashes' = d.hashes
         /\ IF d.ret
            THEN UNCHANGED <<lastCaptureTime, captureTimes>>
            ELSE /\ lastCaptureTime' = now
                 /\ captureTimes' = Append(captureTimes, now)

\* !test-single-capture, or one of the two captures of
\* !test-alternating-capture
CmdSingleCapture(b) ==
    /\ Len(captureTimes) < MaxCaptures
    /\ \E frame \in Screens : captureSingleBanner(b, frame)
    /\ UNCHANGED <<lastSentBannerNames, sess, now>>
    /\ TimingFrame

\* !test-alternating-capture: captureSingleBanner('X') is called and its
\* result kept, then the handler waits five seconds
CmdAlternating ==
    /\ FreeSlots # {}
    /\ Len(captureTimes) < MaxCaptures
    /\ \E frame \in Screens : captureSingleBanner("X", frame)
    /\ sess' = [sess EXCEPT ![FreeSlot] =
                   [IdleSess EXCEPT
                      !.pc = "a_wait", !.by = "alternating", !.since = now,
                      !.dispatched = IF captureTimes' # captureTimes
                                     THEN {"X"} ELSE {}]]
    /\ UNCHANGED <<lastSentBannerNames, now>>
    /\ TimingFrame

\* the five seconds are over: captureSingleBanner('Y') is called and the
\* reply reports the two results
AlternatingY(s) ==
    /\ sess[s].pc = "a_wait"
    /\ \E frame \in Screens : captureSingleBanner("Y", frame)
    /\ sess' = [sess EXCEPT
                   ![s].pc = "a_replied",
                   ![s].dispatched = IF captureTimes' # captureTimes
                                     THEN @ \cup {"Y"} ELSE @]
    /\ UNCHANGED <<lastSentBannerNames, now>>
    /\ TimingFrame

\* the handler of the command has returned
AlternatingDone(s) ==
    /\ sess[s].pc = "a_replied"
    /\ sess' = [sess EXCEPT ![s] = IdleSess]
    /\ UNCHANGED <<recentHashes, lastSentBannerNames, now, lastCaptureTime,
                   captureTimes>>
    /\ TimingFrame

\* captureAndSendBanners of the long-lived class is called by monitorLoop
\* or by the scheduler: the dedup state is reset and the X loop begins
LongStart ==
    /\ \A s \in Sessions : sess[s].by # "loop"
    /\ FreeSlots # {}
    /\ sess' = [sess EXCEPT ![FreeSlot] =
                   [IdleSess EXCEPT !.pc = "l_probe", !.by = "loop"]]
    /\ recentHashes' = <<>>
    /\ lastSentBannerNames' = NoneSent
    /\ UNCHANGED <<now, lastCaptureTime, captureTimes>>
    /\ TimingFrame

\* the loop of the banner recognises its label and captures the banner
\* area; the image is sent unless the name or the image is a duplicate,
\* and the loop is left. Attempts that miss only let time pass
LongCapture(s) ==
    /\ sess[s].pc = "l_probe"
    /\ Len(captureTimes) < MaxCaptures
    /\ LET b == sess[s].banner
           d == isDuplicateImage(recentHashes, hashCacheSize, Pixels(b))
           sent == lastSentBannerNames[b] # BannerLabel(b) /\ ~d.ret
       IN /\ recentHashes' = IF lastSentBannerNames[b] # BannerLabel(b)
                             THEN d.hashes ELSE recentHashes
          /\ lastSentBannerNames' =
                 IF sent
                 THEN [lastSentBannerNames EXCEPT ![b] = BannerLabel(b)]
                 ELSE lastSentBannerNames
          /\ captureTimes' = IF sent THEN Append(captureTimes, now)
                             ELSE captureTimes
          /\ sess' = [sess EXCEPT ![s] =
                         IF b = "X" THEN [sess[s] EXCEPT !.banner = "Y"]
                         ELSE IdleSess]
    /\ UNCHANGED <<now, lastCaptureTime>>
    /\ TimingFrame

(* ------- startMonitoring, monitorLoop, testScreenshot, scheduler ------ *)
\* the class run: the older one with monitorLoop started by
\* startMonitoring, the long-lived one with the guarded scheduler and the
\* guarded monitorLoop, and the long-lived one with the
\* startScheduledMonitoring of the notes
MonitorVariants == {"older", "long-lived", "notes"}

MonitorFrame ==
    UNCHANGED <<tesseractWorker, engines, recentHashes, lastSentBannerNames,
                hashCacheSize, span, failures, callLog, opLog, prevX, logging,
                bannerFile, roleId, ocrText, variant, site, issues, now,
                lastCaptureTime, captureTimes, proc>>

\* the fields of the bot the monitoring code reads and writes, and the
\* activities in progress
Mon ==
    [browser |-> browser, page |-> page, live |-> liveBrowsers,
     isRunning |-> isRunning, timers |-> timers,
     loopFlag |-> monitorLoopRunning, schedFlag |-> scheduledMonitorActive,
     sess |-> sess]

MonApply(m) ==
    /\ browser' = m.browser
    /\ page' = m.page
    /\ liveBrowsers' = m.live
    /\ isRunning' = m.isRunning
    /\ timers' = m.timers
    /\ monitorLoopRunning' = m.loopFlag
    /\ scheduledMonitorActive' = m.schedFlag
    /\ sess' = m.sess
    /\ MonitorFrame

\* an activity: its position, what started it, what its slot goes back to
\* when startMonitoring or restartBrowser returns, and the wasRunning of a
\* command that pauses
Act(pc, by, after, was) ==
    [IdleSess EXCEPT !.pc = pc, !.by = by, !.after = after,
                     !.wasRunning = was]

MFree(m) == {s \in Sessions : m.sess[s].pc = "idle"}
MPick(m) == CHOOSE s \in MFree(m) : \A t \in MFree(m) : s <= t

\* the monitorLoop instances that have not left their while loop
Loops == {s \in Sessions : sess[s].by = "loop"}

\* captureAndSendBanners is in progress in these positions
CapturePcs == {"ml_capture", "s_capture", "c_capture"}

\* startScheduledMonitoring: the long-lived class returns when the flag is
\* set and installs a timer otherwise; the notes clear the installed timer
\* first and then test the flag
startScheduledMonitoring(m) ==
    IF variant = "notes"
    THEN LET c == [m EXCEPT !.timers = IF @ > 0 THEN @ - 1 ELSE 0] IN
         IF c.schedFlag THEN c
         ELSE [c EXCEPT !.schedFlag = TRUE, !.timers = @ + 1]
    ELSE IF m.schedFlag THEN m
    ELSE [m EXCEPT !.schedFlag = TRUE, !.timers = @ + 1]

\* the body of a loop iteration begins: the long-lived class calls
\* captureAndSendBanners in every iteration, the older class at the two
\* minutes and waits a minute otherwise
LoopBody(s) ==
    Act(IF variant = "older" /\ ~ShouldCapture(minute)
        THEN "ml_wait" ELSE "ml_capture", "loop", "return", FALSE)

\* monitorLoop() is called, to run in slot t: the long-lived class returns
\* when _monitorLoopRunning is set and sets it otherwise; the while loop
\* is entered when isRunning is true
monitorLoop(m, t) ==
    IF variant # "older" /\ m.loopFlag THEN m
    ELSE LET g == IF variant = "older" THEN m
                  ELSE [m EXCEPT !.loopFlag = TRUE]
         IN IF g.isRunning THEN [g EXCEPT !.sess[t] = LoopBody(t)] ELSE g

\* startMonitoring or restartBrowser returns in slot s: a monitorLoop that
\* awaited restartBrowser goes on to its next while test, the other
\* callers are done
Return(m, s) ==
    IF m.sess[s].after = "loop"
    THEN [m EXCEPT !.sess[s] = Act("ml_wait", "loop", "return", FALSE)]
    ELSE [m EXCEPT !.sess[s] = IdleSess]

\* the slot of what the activity in s starts without awaiting it: its own
\* slot when it ends with that, a free one when it goes on
SpawnSlot(m, s) ==
    IF m.sess[s].after = "loop" THEN MPick(Return(m, s)) ELSE s
CanSpawn(m, s) == m.sess[s].after = "loop" => MFree(Return(m, s)) # {}

\* the catch block of startMonitoring: a timeout schedules another
\* startMonitoring, a protocol error a restartBrowser, then the error is
\* reported; isRunning is left as it is
StartFailed(m, s, kind) ==
    LET t == SpawnSlot(m, s)
        r == Return(m, s)
    IN CASE kind = "timeout" ->
              [r EXCEPT !.sess[t] = Act("tm_start", "timer", "return", FALSE)]
         [] kind = "protocol" ->
              [r EXCEPT !.sess[t] = Act("tm_restart", "timer", "return", FALSE)]
         [] OTHER -> r

FailKinds == {"timeout", "protocol", "other"}

\* Events.ClientReady of the long-lived classes: startMonitoring is called
MonClientReady ==
    /\ variant \in MonitorVariants
    /\ ~ready
    /\ ready' = TRUE
    /\ MonApply([Mon EXCEPT !.sess[FreeSlot] =
                                Act("m_launch", "start", "return", FALSE)])
    /\ UNCHANGED minute

\* startMonitoring: puppeteer.launch returns or throws
MonLaunch(s) ==
    /\ sess[s].pc = "m_launch"
    /\ \E ok \in BOOLEAN, kind \in FailKinds :
         IF ok
         THEN MonApply([Mon EXCEPT !.browser = s, !.live = @ \cup {s},
                                   !.sess[s].pc = "m_page"])
         ELSE /\ kind # "other" => CanSpawn(Mon, s)
              /\ MonApply(StartFailed(Mon, s, kind))
    /\ UNCHANGED <<ready, minute>>

\* startMonitoring: browser.newPage returns or throws
MonPage(s) ==
    /\ sess[s].pc = "m_page"
    /\ \E ok \in BOOLEAN, kind \in FailKinds :
         IF ok /\ browser # Null
         THEN MonApply([Mon EXCEPT !.page = browser, !.sess[s].pc = "m_load"])
         ELSE /\ kind # "other" => CanSpawn(Mon, s)
              /\ MonApply(StartFailed(Mon, s, kind))
    /\ UNCHANGED <<ready, minute>>

\* startMonitoring: the stream is loaded and the video started, or one of
\* these throws; on success isRunning is set and the older class calls
\* monitorLoop, the long-lived one startScheduledMonitoring
MonLoad(s) ==
    /\ sess[s].pc = "m_load"
    /\ \E ok \in BOOLEAN, kind \in FailKinds :
         IF ok /\ page # Null
         THEN LET m == [Mon EXCEPT !.isRunning = TRUE] IN
              IF variant = "older"
              THEN /\ CanSpawn(m, s)
                   /\ MonApply(monitorLoop(Return(m, s), SpawnSlot(m, s)))
              ELSE MonApply(Return(startScheduledMonitoring(m), s))
         ELSE /\ kind # "other" => CanSpawn(Mon, s)
              /\ MonApply(StartFailed(Mon, s, kind))
    /\ UNCHANGED <<ready, minute>>

\* a retry timer of startMonitoring's catch block fires
MonTimerFire(s) ==
    /\ sess[s].pc \in {"tm_start", "tm_restart"}
    /\ MonApply([Mon EXCEPT !.sess[s].pc =
                     IF sess[s].pc = "tm_start" THEN "m_launch" ELSE "r_close"])
    /\ UNCHANGED <<ready, minute>>

\* restartBrowser: the browser, if any, is closed and both handles are set
\* to null; isRunning is not touched
MonRestartClose(s) ==
    /\ sess[s].pc = "r_close"
    /\ MonApply(IF browser # Null
                THEN [Mon EXCEPT !.live = @ \ {browser}, !.browser = Null,
                                 !.page = Null, !.sess[s].pc = "r_wait"]
                ELSE [Mon EXCEPT !.sess[s].pc = "r_wait"])
    /\ UNCHANGED <<ready, minute>>

\* restartBrowser: the two seconds are over, startMonitoring is called
MonRestartWait(s) ==
    /\ sess[s].pc = "r_wait"
    /\ MonApply([Mon EXCEPT !.sess[s].pc = "m_launch"])
    /\ UNCHANGED <<ready, minute>>

\* monitorLoop: the captureAndSendBanners of the iteration returns and the
\* wait begins, or the iteration throws a protocol error (the older class:
\* finds the browser context invalid) and restartBrowser is awaited
MonLoopCapture(s) ==
    /\ sess[s].pc = "ml_capture"
    /\ \E broken \in BOOLEAN :
         MonApply([Mon EXCEPT !.sess[s] =
                       IF broken THEN Act("r_close", "loop", "loop", FALSE)
                       ELSE Act("ml_wait", "loop", "return", FALSE)])
    /\ UNCHANGED <<ready, minute>>

\* monitorLoop: the wait is over and the while condition is tested; the
\* loop is left when isRunning is false. _monitorLoopRunning stays set
MonLoopNext(s) ==
    /\ sess[s].pc = "ml_wait"
    /\ MonApply([Mon EXCEPT !.sess[s] =
                     IF isRunning THEN LoopBody(s) ELSE IdleSess])
    /\ UNCHANGED <<ready, minute>>

\* !test-screenshot or !test-capture: testScreenshot keeps isRunning in
\* wasRunning and pauses
CmdTestScreenshot ==
    /\ variant \in MonitorVariants
    /\ ready
    /\ FreeSlots # {}
    /\ MonApply([Mon EXCEPT !.isRunning = FALSE,
                            !.sess[FreeSlot] =
                                Act("t_run", "test", "return", isRunning)])
    /\ UNCHANGED <<ready, minute>>

\* testScreenshot ends: after the two captures isRunning is set again and
\* monitorLoop() called when the bot was running; when a step of the
\* try block throws, the catch block reads wasRunning, a constant of the
\* try block, and throws in turn
MonTestDone(s) ==
    /\ sess[s].pc = "t_run"
    /\ \E ok \in BOOLEAN :
         LET m == [Mon EXCEPT !.sess[s] = IdleSess] IN
         IF ok /\ sess[s].wasRunning
         THEN MonApply(monitorLoop([m EXCEPT !.isRunning = TRUE], s))
         ELSE MonApply(m)
    /\ UNCHANGED <<ready, minute>>

\* !restart-browser
CmdRestartBrowser ==
    /\ variant \in MonitorVariants
    /\ ready
    /\ FreeSlots # {}
    /\ MonApply([Mon EXCEPT !.sess[FreeSlot] =
                                Act("r_close", "restart", "return", FALSE)])
    /\ UNCHANGED <<ready, minute>>

\* !capture-banners of the long-lived class: pause, captureAndSendBanners
MonCmdCapture ==
    /\ variant \in {"long-lived", "notes"}
    /\ ready
    /\ FreeSlots # {}
    /\ MonApply([Mon EXCEPT !.isRunning = FALSE,
                            !.sess[FreeSlot] =
                                Act("c_capture", "capture", "return",
                                    isRunning)])
    /\ UNCHANGED <<ready, minute>>

\* the captureAndSendBanners of the command or of the timer callback
\* returns; the command sets isRunning again and calls
\* startScheduledMonitoring when the bot was running
MonCaptureDone(s) ==
    /\ sess[s].pc \in {"s_capture", "c_capture"}
    /\ LET m == [Mon EXCEPT !.sess[s] = IdleSess] IN
       IF sess[s].pc = "c_capture" /\ sess[s].wasRunning
       THEN MonApply(startScheduledMonitoring([m EXCEPT !.isRunning = TRUE]))
       ELSE MonApply(m)
    /\ UNCHANGED <<ready, minute>>

\* a minute passes: the callback of an installed timer tests isRunning
\* and the minute and calls captureAndSendBanners
MonTick ==
    /\ variant \in MonitorVariants
    /\ minute < MaxMinute
    /\ minute' = minute + 1
    /\ LET start == timers > 0 /\ isRunning /\ ShouldCapture(minute + 1) IN
       /\ start => FreeSlots # {}
       /\ MonApply(IF start
                   THEN [Mon EXCEPT !.sess[FreeSlot] =
                                        Act("s_capture", "tick", "return",
                                            FALSE)]
                   ELSE Mon)
    /\ UNCHANGED ready

(* ----------------------------- shutdown ------------------------------ *)
Signals == {"SIGINT", "SIGTERM", "uncaughtException", "unhandledRejection"}

ShutdownFrame ==
    UNCHANGED <<recentHashes, lastSentBannerNames, hashCacheSize, ready,
                minute, span, failures, callLog, opLog, prevX, logging,
                bannerFile, roleId, ocrText, variant, site, issues, now,
                lastCaptureTime, captureTimes, monitorLoopRunning,
                scheduledMonitorActive>>

\* the long-lived class after ClientReady: startMonitoring launches the
\* browser, opens the page and sets isRunning, or fails and leaves the
\* handles null
LongBoot ==
    /\ variant = "long-lived"
    /\ ~ready
    /\ ready' = TRUE
    /\ \E ok \in BOOLEAN :
         IF ok
         THEN /\ browser' = 1 /\ page' = 1 /\ liveBrowsers' = {1}
              /\ isRunning' = TRUE /\ timers' = 1
         ELSE UNCHANGED <<browser, page, liveBrowsers, isRunning, timers>>
    /\ UNCHANGED <<tesseractWorker, engines, sess, recentHashes,
                   lastSentBannerNames, hashCacheSize, minute, span, failures,
                   callLog, opLog, prevX>>
    /\ UNCHANGED envVars

\* the long-lived class keeps its worker: the first captureAndSendBanners
\* creates it through initTesseractWorker
LongInitWorker ==
    /\ variant = "long-lived"
    /\ isRunning
    /\ tesseractWorker = Null
    /\ tesseractWorker' = 1
    /\ engines' = engines \cup {1}
    /\ UNCHANGED <<browser, page, liveBrowsers, isRunning, timers, sess,
                   recentHashes, lastSentBannerNames, hashCacheSize, ready,
                   minute, span, failures, callLog, opLog, prevX>>
    /\ UNCHANGED envVars

\* the handler of the signal in the ephemeral-browser program: stop sets
\* isRunning, clears the timer and calls closeBrowser
EphemeralSignal ==
    /\ variant = "ephemeral"
    /\ FreeSlots # {}
    /\ LET s == FreeSlot
           m == closeBrowser([Mach(s) EXCEPT
                                 !.r = [IdleSess EXCEPT !.by = "signal"]],
                             "stop")
       IN /\ browser' = m.browser
          /\ page' = m.page
          /\ tesseractWorker' = m.worker
          /\ engines' = m.engines
          /\ liveBrowsers' = m.live
          /\ sess' = [sess EXCEPT ![s] = m.r]
    /\ isRunning' = FALSE
    /\ timers' = 0
    /\ UNCHANGED proc
    /\ ShutdownFrame

\* the handlers of the signal in the long-lived program. The handler of
\* SIGTERM registered first calls process.exit at once. The others call
\* stop: isRunning is cleared and the browser, if any, is closed; the
\* worker is left alone
LongSignal(kind) ==
    /\ variant = "long-lived"
    /\ FreeSlots # {}
    /\ IF kind = "SIGTERM"
       THEN /\ proc' = "exited"
            /\ UNCHANGED <<isRunning, liveBrowsers, sess>>
       ELSE /\ isRunning' = FALSE
            /\ liveBrowsers' = liveBrowsers \ {browser}
            /\ sess' = [sess EXCEPT ![FreeSlot] =
                           [IdleSess EXCEPT
                               !.by = "signal",
                               !.pc = IF browser # Null THEN "l_closeB"
                                      ELSE "destroy"]]
            /\ UNCHANGED proc
    /\ UNCHANGED <<browser, page, tesseractWorker, engines, timers>>
    /\ ShutdownFrame

\* a termination signal or an uncaught fault reaches the process
Signal(kind) ==
    IF variant = "ephemeral" THEN EphemeralSignal ELSE LongSignal(kind)

\* stop of the long-lived class: browser.close has settled. On success the
\* handle is nulled and client.destroy follows; an error is caught, stop
\* returns and the handler exits
LongStopClosed(s) ==
    /\ sess[s].pc = "l_closeB"
    /\ \E ok \in BOOLEAN :
         IF ok
         THEN /\ browser' = Null
              /\ sess' = [sess EXCEPT ![s].pc = "destroy"]
              /\ UNCHANGED proc
         ELSE /\ sess' = [sess EXCEPT ![s].pc = "stopped"]
              /\ proc' = "exited"
              /\ UNCHANGED browser
    /\ UNCHANGED <<page, tesseractWorker, engines, isRunning, timers,
                   liveBrowsers>>
    /\ ShutdownFrame

\* client.destroy has settled: stop returns and the handler calls
\* process.exit
Destroy(s) ==
    /\ sess[s].pc = "destroy"
    /\ sess' = [sess EXCEPT ![s].pc = "stopped"]
    /\ proc' = "exited"
    /\ UNCHANGED <<browser, page, tesseractWorker, engines, isRunning, timers,
                   liveBrowsers>>
    /\ ShutdownFrame

(* -------------------------- specifications --------------------------- *)
BotInit ==
    /\ browser = Null
    /\ page = Null
    /\ tesseractWorker = Null
    /\ engines = {}
    /\ isRunning = FALSE
    /\ timers = 0
    /\ recentHashes = <<>>
    /\ lastSentBannerNames = NoneSent
    /\ ready = FALSE
    /\ minute = 0
    /\ liveBrowsers = {}
    /\ sess = [s \in Sessions |-> IdleSess]
    /\ span = 0
    /\ failures = FALSE
    /\ callLog = <<>>
    /\ opLog = <<>>
    /\ prevX = NoImage

\* the deployment of the template: no caption file, placeholder role
DefaultEnv ==
    /\ bannerFile = NoFile /\ roleId = PlaceholderRole /\ ocrText = <<>>
    /\ variant = "ephemeral"
    /\ NoHealth
    /\ NoTiming
    /\ NoMonitor
    /\ proc = "running"

Init ==
    /\ BotInit
    /\ hashCacheSize = DefaultHashCacheSize
    /\ logging = FALSE
    /\ DefaultEnv

Next ==
    \/ ClientReady
    \/ Tick
    \/ CmdTest
    \/ \E s \in Sessions : SessionStep(s)

Spec == Init /\ [][Next]_vars

FairSpec == Spec /\ \A s \in Sessions : WF_vars(SessionStep(s))

DedupInit ==
    /\ BotInit
    /\ hashCacheSize \in 0..MaxCap
    /\ logging = FALSE
    /\ DefaultEnv

DedupNext ==
    \/ \E img \in Images \cup {NoImage} : CallIsDuplicateImage(img)
    \/ ResetDedup

DedupSpec == DedupInit /\ [][DedupNext]_vars

\* sessions one after the other, started by the operator, with their
\* operations recorded
LoggedInit ==
    /\ BotInit
    /\ hashCacheSize = DefaultHashCacheSize
    /\ logging = TRUE
    /\ bannerFile \in {NoFile, TextFile(<<"a", "\n">>)}
    /\ roleId \in RoleIds
    /\ ocrText = <<>>
    /\ variant = "ephemeral"
    /\ NoHealth
    /\ NoTiming
    /\ NoMonitor
    /\ proc = "running"

LoggedNext ==
    \/ ClientReady
    \/ CmdTest
    \/ \E s \in Sessions : SessionStep(s)

LoggedSpec == LoggedInit /\ [][LoggedNext]_vars

\* sendToDiscord called as the probe loops call it, while the operator
\* edits, removes or locks the caption file
Chars == {" ", "\n", "a"}
Texts == UNION {[1..n -> Chars] : n \in 0..MaxFileLen}
Files == {NoFile, BadFile} \cup {TextFile(t) : t \in Texts}

EditFile(f) ==
    /\ f # bannerFile
    /\ bannerFile' = f
    /\ UNCHANGED <<recentHashes, lastSentBannerNames, hashCacheSize, callLog,
                   logging, opLog, prevX, roleId, ocrText, variant, site,
                   issues, now, lastCaptureTime, captureTimes, proc,
                   monitorLoopRunning, scheduledMonitorActive>>
    /\ UNCHANGED botVars

CallSendToDiscord(b) ==
    /\ Len(opLog) < MaxSends
    /\ \E delivered \in BOOLEAN :
         opLog' = Append(opLog, Entry("send", b, "", NoImage, delivered,
                                      SendContent(b)))
    /\ UNCHANGED <<recentHashes, lastSentBannerNames, hashCacheSize, callLog,
                   prevX>>
    /\ UNCHANGED botVars
    /\ UNCHANGED envVars

SendInit ==
    /\ BotInit
    /\ hashCacheSize = DefaultHashCacheSize
    /\ logging = TRUE
    /\ bannerFile \in Files
    /\ roleId \in RoleIds
    /\ ocrText = <<>>
    /\ variant = "ephemeral"
    /\ NoHealth
    /\ NoTiming
    /\ NoMonitor
    /\ proc = "running"

SendNext ==
    \/ \E f \in Files : EditFile(f)
    \/ \E b \in Banners : CallSendToDiscord(b)

SendSpec == SendInit /\ [][SendNext]_vars

\* the classification of the probes applied to arbitrary OCR texts
OcrChars == {"X", "Y", "BANNER", "A", " "}
OcrTexts == UNION {[1..n -> OcrChars] : n \in 0..MaxTextLen}

\* the probe of banner b of the ephemeral-browser class classifies ocrText
Classify(b) ==
    /\ opLog = <<>>
    /\ LET label == extractBannerLabel(ocrText) IN
       opLog' = <<Entry("extractBannerLabel", b, "", NoImage,
                        label = LabelText(b), label)>>
    /\ UNCHANGED <<recentHashes, lastSentBannerNames, hashCacheSize, callLog,
                   prevX>>
    /\ UNCHANGED botVars
    /\ UNCHANGED envVars

\* the loop of banner b of the bounded-retry class classifies ocrText
ClassifyName(b) ==
    /\ opLog = <<>>
    /\ LET label == ocrBannerName(ocrText) IN
       opLog' = <<Entry("ocrBannerName", b, "", NoImage,
                        label = LabelText(b), label)>>
    /\ UNCHANGED <<recentHashes, lastSentBannerNames, hashCacheSize, callLog,
                   prevX>>
    /\ UNCHANGED botVars
    /\ UNCHANGED envVars

OcrInit ==
    /\ BotInit
    /\ hashCacheSize = DefaultHashCacheSize
    /\ logging = TRUE
    /\ bannerFile = NoFile
    /\ roleId = PlaceholderRole
    /\ ocrText \in OcrTexts
    /\ variant = "ephemeral"
    /\ NoHealth
    /\ NoTiming
    /\ NoMonitor
    /\ proc = "running"

OcrNext ==
    \/ \E b \in Banners : Classify(b)
    \/ \E b \in Banners : ClassifyName(b)

OcrSpec == OcrInit /\ [][OcrNext]_vars

\* the sessions of the two attempt-bounded captureAndSendBanners
BoundedInit ==
    /\ BotInit
    /\ hashCacheSize = DefaultHashCacheSize
    /\ logging = FALSE
    /\ bannerFile = NoFile
    /\ roleId = PlaceholderRole
    /\ ocrText = <<>>
    /\ variant \in {"retry5", "capped"}
    /\ NoHealth
    /\ NoTiming
    /\ NoMonitor
    /\ proc = "running"

BoundedNext ==
    \/ StartBounded
    \/ CmdCaptureBanners
    \/ \E s \in Sessions : BoundedStep(s)

BoundedSpec == BoundedInit /\ [][BoundedNext]_vars

\* health checks and recoveries of the long-lived class on every kind of
\* page state
HealthInit ==
    /\ BotInit
    /\ hashCacheSize = DefaultHashCacheSize
    /\ logging = TRUE
    /\ bannerFile = NoFile
    /\ roleId = PlaceholderRole
    /\ ocrText = <<>>
    /\ variant = "long-lived"
    /\ site \in Sites
    /\ issues = <<>>
    /\ NoTiming
    /\ NoMonitor
    /\ proc = "running"

HealthNext ==
    \/ CallPerformHealthCheck
    \/ MonitorRecovery
    \/ \E list \in IssueLists : CallPerformRecovery(list)

HealthSpec == HealthInit /\ [][HealthNext]_vars

\* the captures of the long-lived class against the clock: sessions and
\* the operator's capture commands
TimingInit ==
    /\ BotInit
    /\ hashCacheSize = DefaultHashCacheSize
    /\ logging = FALSE
    /\ bannerFile = NoFile
    /\ roleId = PlaceholderRole
    /\ ocrText = <<>>
    /\ variant = "long-lived"
    /\ NoHealth
    /\ NoTiming
    /\ NoMonitor
    /\ proc = "running"

TimingNext ==
    \/ Advance
    \/ \E b \in Banners : CmdSingleCapture(b)
    \/ CmdAlternating
    \/ \E s \in Sessions : AlternatingY(s)
    \/ \E s \in Sessions : AlternatingDone(s)
    \/ LongStart
    \/ \E s \in Sessions : LongCapture(s)

TimingSpec == TimingInit /\ [][TimingNext]_vars

\* the long-lived classes from the login on: startMonitoring and its
\* retries, monitorLoop, the scheduler and the operator's commands
MonitorInit ==
    /\ BotInit
    /\ hashCacheSize = DefaultHashCacheSize
    /\ logging = FALSE
    /\ bannerFile = NoFile
    /\ roleId = PlaceholderRole
    /\ ocrText = <<>>
    /\ variant \in MonitorVariants
    /\ NoHealth
    /\ NoTiming
    /\ NoMonitor
    /\ proc = "running"

MonitorNext ==
    \/ MonClientReady
    \/ \E s \in Sessions : MonLaunch(s)
    \/ \E s \in Sessions : MonPage(s)
    \/ \E s \in Sessions : MonLoad(s)
    \/ \E s \in Sessions : MonTimerFire(s)
    \/ \E s \in Sessions : MonRestartClose(s)
    \/ \E s \in Sessions : MonRestartWait(s)
    \/ \E s \in Sessions : MonLoopCapture(s)
    \/ \E s \in Sessions : MonLoopNext(s)
    \/ CmdTestScreenshot
    \/ \E s \in Sessions : MonTestDone(s)
    \/ CmdRestartBrowser
    \/ MonCmdCapture
    \/ \E s \in Sessions : MonCaptureDone(s)
    \/ MonTick

MonitorSpec == MonitorInit /\ [][MonitorNext]_vars

\* both programs running, with and without a session, when a signal or an
\* uncaught fault arrives; nothing happens after the exit
ShutdownInit ==
    /\ BotInit
    /\ hashCacheSize = DefaultHashCacheSize
    /\ logging = FALSE
    /\ bannerFile = NoFile
    /\ roleId = PlaceholderRole
    /\ ocrText = <<>>
    /\ variant \in {"ephemeral", "long-lived"}
    /\ NoHealth
    /\ NoTiming
    /\ NoMonitor
    /\ proc = "running"

\* the process has not exited
Alive == proc = "running"

\* the steps of the two programs while the process lives
LiveClientReady == Alive /\ variant = "ephemeral" /\ ClientReady
LiveCmdTest == Alive /\ variant = "ephemeral" /\ CmdTest
LiveSessionStep(s) == Alive /\ SessionStep(s)
LiveLongBoot == Alive /\ LongBoot
LiveLongInitWorker == Alive /\ LongInitWorker
LiveSignal(kind) == Alive /\ Signal(kind)
LiveLongStopClosed(s) == Alive /\ LongStopClosed(s)
LiveDestroy(s) == Alive /\ Destroy(s)

ShutdownNext ==
    \/ LiveClientReady
    \/ LiveCmdTest
    \/ \E s \in Sessions : LiveSessionStep(s)
    \/ LiveLongBoot
    \/ LiveLongInitWorker
    \/ \E kind \in Signals : LiveSignal(kind)
    \/ \E s \in Sessions : LiveLongStopClosed(s)
    \/ \E s \in Sessions : LiveDestroy(s)

ShutdownSpec == ShutdownInit /\ [][ShutdownNext]_vars

(* ------------------------------ claims ------------------------------- *)
\* a timer callback starts a session in this step
TickStarted ==
    /\ minute' # minute
    /\ \E s \in Sessions : sess[s].pc = "idle" /\ sess'[s].pc # "idle"

\* session s returns to its caller in this step
Returns(s) == sess[s].pc # "idle" /\ sess'[s].pc = "idle"

\* the session has reset the dedup state and has not returned yet
PastReset(r) ==
    \/ r.pc \in {"createWorker", "setupWorker", "probe", "delay", "full",
                "send"}
    \/ r.pc \in {"closeW", "closeP", "closeB"} /\ r.after = "return" /\ ~r.errSent

\* C1: a timer tick never starts a capture session while another session
\* (started by the timer or by an operator command) is still in flight
C1_TickNeverOverlaps == [][TickStarted => AllIdle]_vars

\* C2: every capture session terminates: once captureAndSendBanners has
\* been called it eventually returns and the session is idle again
C2_SessionTerminates ==
    \A s \in Sessions : (sess[s].pc # "idle") ~> (sess[s].pc = "idle")

\* C3: with the scheduler running, a tick starts a session if and only if
\* the minute it reads is xBannerMinute or yBannerMinute (1 and 31)
C3_TickStartsIffScheduledMinute ==
    [][(minute' # minute /\ timers > 0 /\ isRunning)
         => (TickStarted <=> minute' \in {xBannerMinute, yBannerMinute})]_vars

\* a session the timer has just started at minute 31, after an idle
\* stretch of non-scheduled minutes
C3_Witness ==
    /\ minute = yBannerMinute
    /\ \E s \in Sessions : sess[s].pc = "launch" /\ sess[s].by = "tick"

\* C4: whenever captureAndSendBanners returns, the browser and page
\* handles are null and close was invoked on every browser launched
C4_NoBrowserLeakOnReturn ==
    [][\A s \in Sessions :
         Returns(s) => browser' = Null /\ page' = Null /\ liveBrowsers' = {}]_vars

C6_CacheBounded == Len(recentHashes) <= hashCacheSize

\* a full cache of capacity 2 whose last call inserted and evicted
C6_Witness ==
    /\ hashCacheSize = 2
    /\ Len(callLog) >= 3
    /\ ~callLog[Len(callLog)].ret
    /\ Len(callLog[Len(callLog)].before) = 2
    /\ Len(recentHashes) = 2

DistinctValid(log) ==
    /\ \A i \in 1..Len(log) : log[i].img # NoImage
    /\ \A i, j \in 1..Len(log) : i # j => log[i].img # log[j].img

\* hashes of the images whose call inserted, in call order
Inserted(log) ==
    LET ins == SelectSeq(log, LAMBDA c : c.img # NoImage /\ ~c.had) IN
    [i \in 1..Len(ins) |-> calculateImageHash(ins[i].img)]

LastN(seq, n) ==
    IF Len(seq) <= n THEN seq ELSE SubSeq(seq, Len(seq) - n + 1, Len(seq))

\* C7: starting from an empty cache of capacity N, after N+1 pairwise
\* distinct images the cache holds the hashes of the N most recent ones in
\* insertion order and not the oldest; in general the cache is the last N
\* inserted hashes, a hit does not move an entry
C7_FifoEviction ==
    /\ (Len(callLog) = hashCacheSize + 1 /\ DistinctValid(callLog)) =>
         /\ recentHashes = [i \in 1..hashCacheSize |->
                              calculateImageHash(callLog[i + 1].img)]
         /\ ~Includes(recentHashes, calculateImageHash(callLog[1].img))
    /\ recentHashes = LastN(Inserted(callLog), hashCacheSize)

\* capacity 3 after 4 distinct images
C7_Witness ==
    /\ hashCacheSize = 3
    /\ Len(callLog) = 4
    /\ DistinctValid(callLog)

\* two successive calls with the same image, the first on a cache that
\* does not hold its hash
SamePair(i) ==
    /\ callLog[i].img # NoImage
    /\ callLog[i].img = callLog[i + 1].img
    /\ ~callLog[i].had

\* C8 as stated: for every capacity, two successive calls with identical
\* bytes on a cache without that hash return false and then true
C8_TwiceFalseThenTrue ==
    \A i \in 1..(Len(callLog) - 1) :
        SamePair(i) => ~callLog[i].ret /\ callLog[i + 1].ret

\* C8 amended: the same for every capacity of at least 1
C8_TwiceFalseThenTrueFromCap1 ==
    hashCacheSize >= 1 => C8_TwiceFalseThenTrue

\* a full cache, then the same new image twice
C8_Witness ==
    /\ hashCacheSize >= 1
    /\ Len(callLog) >= hashCacheSize + 2
    /\ SamePair(Len(callLog) - 1)
    /\ Len(callLog[Len(callLog) - 1].before) = hashCacheSize
    /\ callLog[Len(callLog)].ret

\* C9: a call that returns true leaves recentHashes as it was
C9_HitLeavesCacheUnchanged ==
    \A i \in 1..Len(callLog) :
        callLog[i].ret => callLog[i].after = callLog[i].before

\* a hit on the oldest of at least two entries
C9_Witness ==
    /\ Len(callLog) >= 3
    /\ callLog[Len(callLog)].ret
    /\ Len(recentHashes) >= 2
    /\ recentHashes[1] = calculateImageHash(callLog[Len(callLog)].img)

\* C10: the dedup state is empty when the first probe of a session begins
\* and is not cleared again before that session ends
C10_ResetOnceAtSessionStart ==
    [][\A s \in Sessions :
         /\ (sess[s].pc \in {"settle", "createWorker", "setupWorker"}
               /\ sess'[s].pc = "probe")
              => (recentHashes' = <<>> /\ lastSentBannerNames' = NoneSent)
         /\ (sess[s].pc = "settle" /\ sess'[s].pc # "settle")
              => \A t \in Sessions \ {s} : ~PastReset(sess[t])]_vars

\* the session in flight has invoked sendToDiscord for banner b and awaits it
Sending(b) ==
    \E s \in Sessions :
        sess[s].pc = "send" /\ sess[s].banner = b /\ b \in sess[s].dispatched

\* the recorded operation i is followed by the send of banner b
FollowedBySend(i, b) ==
    IF i = Len(opLog) THEN Sending(b)
    ELSE opLog[i + 1].op = "send" /\ opLog[i + 1].banner = b

EndsBanner(i) ==
    \/ opLog[i].op = "send"
    \/ opLog[i].op = "full" /\ opLog[i].ok

\* C12: within a session every operation of the X loop precedes every
\* operation of the Y loop, and the first Y probe follows the operation
\* that ended X (send, or full capture with the send suppressed)
C12_XLoopBeforeYLoop ==
    \A i \in 1..Len(opLog) :
        /\ (i > 1 /\ opLog[i].banner = "X") => opLog[i - 1].banner = "X"
        /\ (i > 1 /\ opLog[i].banner = "Y" /\ opLog[i - 1].banner = "X")
              => (EndsBanner(i - 1) /\ opLog[i].op = "roi")
        /\ (i = 1) => (opLog[i].banner = "X" /\ opLog[i].op = "roi")

\* X was probed twice and sent, then Y was probed, captured and sent
C12_Witness ==
    /\ Len(opLog) >= 7
    /\ opLog[1].out # BannerLabel("X")
    /\ \E i \in SendsOf(opLog, "X") : \E j \in SendsOf(opLog, "Y") : i < j

\* every capture of the X loop recorded so far succeeded
XCapturesOk ==
    \A i \in 1..Len(opLog) :
        (opLog[i].banner = "X" /\ opLog[i].op \in {"roi", "full"})
          => opLog[i].ok

\* C13: with every capture succeeding, k probes that miss and one that
\* reads 'X BANNER' make the X loop take exactly k+1 captures of the OCR
\* region (with a wait after each miss), then exactly one full capture,
\* then the send, and no further capture for X
C13_ProbesThenOneFullCapture ==
    \A i \in 1..Len(opLog) :
        (/\ XCapturesOk
         /\ opLog[i].banner = "X" /\ opLog[i].op = "roi"
         /\ opLog[i].out = BannerLabel("X"))
          => /\ \A j \in 1..(i - 1) :
                   IF j % 2 = 1
                   THEN opLog[j].op = "roi" /\ opLog[j].out # BannerLabel("X")
                   ELSE opLog[j].op = "delay"
             /\ i % 2 = 1
             /\ IF i = Len(opLog)
                THEN \E s \in Sessions :
                         sess[s].pc = "full" /\ sess[s].banner = "X"
                ELSE /\ opLog[i + 1].op = "full" /\ opLog[i + 1].banner = "X"
                     /\ FollowedBySend(i + 1, "X")
             /\ \A j \in (i + 3)..Len(opLog) : opLog[j].banner = "Y"

\* frames none, none, X: three probes, one full capture, the send, then Y
C13_Witness ==
    /\ Len(opLog) >= 8
    /\ XCapturesOk
    /\ opLog[1].out = "none" /\ opLog[3].out = "none"
    /\ opLog[5].out = BannerLabel("X")
    /\ opLog[6].op = "full" /\ opLog[7].op = "send"
    /\ opLog[8].banner = "Y"

\* the recorded operation i is a probe whose capture or OCR failed
FailedProbe(i) ==
    opLog[i].op = "roi" /\ opLog[i].out \in {"capture failed", "ocr error"}

\* C15: a probe whose capture fails or whose OCR throws is a miss: the
\* loop waits attemptDelayMs and probes the same banner again, nothing is
\* thrown into the catch block and no error notification is sent
C15_FailedProbeIsAMiss ==
    \A i \in 1..Len(opLog) :
        FailedProbe(i) =>
          /\ \A s \in InFlight :
                /\ sess[s].pc # "catch"
                /\ ~sess[s].errSent
                /\ i = Len(opLog)
                      => sess[s].pc = "delay" /\ sess[s].banner = opLog[i].banner
          /\ i = Len(opLog) => InFlight # {}
          /\ i < Len(opLog)
                => opLog[i + 1].op = "delay" /\ opLog[i + 1].banner = opLog[i].banner
          /\ i + 1 < Len(opLog)
                => opLog[i + 2].op = "roi" /\ opLog[i + 2].banner = opLog[i].banner

\* a failed capture, the wait, an OCR error, the wait, a probe that reads X
C15_Witness ==
    /\ Len(opLog) >= 5
    /\ opLog[1].out = "capture failed"
    /\ opLog[3].out = "ocr error"
    /\ opLog[5].out = BannerLabel("X")

\* C17: lastSentBannerNames[I] holds the label only after an image of I
\* was delivered: right after a send that failed the memo of that banner
\* still has the value it had before the send (none since the reset)
C17_MemoOnlyAfterDelivery ==
    \A i \in 1..Len(opLog) :
        (i = Len(opLog) /\ opLog[i].op = "send" /\ ~opLog[i].ok)
          => lastSentBannerNames[opLog[i].banner] # BannerLabel(opLog[i].banner)

\* C18: a session attempts at most one send per banner, and after a send
\* that failed it goes on to the Y probe (after X) or to the teardown
\* (after Y) without entering the catch block
C18_FailedSendNotRetried ==
    /\ \A b \in Banners : Cardinality(SendsOf(opLog, b)) <= 1
    /\ \A i \in 1..Len(opLog) :
          (opLog[i].op = "send" /\ ~opLog[i].ok) =>
            /\ \A s \in InFlight : sess[s].pc # "catch" /\ ~sess[s].errSent
            /\ i < Len(opLog)
                  => (/\ opLog[i].banner = "X"
                      /\ opLog[i + 1].op = "roi" /\ opLog[i + 1].banner = "Y")
            /\ i = Len(opLog) =>
                  \A s \in InFlight :
                      IF opLog[i].banner = "X"
                      THEN sess[s].pc = "probe" /\ sess[s].banner = "Y"
                      ELSE /\ sess[s].pc \in {"closeW", "closeP", "closeB"}
                           /\ sess[s].after = "return"

\* the X send failed, the session probed Y, and the Y send failed too
C18_Witness ==
    /\ \E i \in SendsOf(opLog, "X") : ~opLog[i].ok /\ i < Len(opLog)
    /\ \E j \in SendsOf(opLog, "Y") : ~opLog[j].ok
    /\ AllIdle

\* the mention a captioned send starts with
ExpectedPing ==
    IF roleId \in {NoRole, PlaceholderRole} THEN <<>> ELSE <<"<@&role>", " ">>

Inked(text) == {i \in 1..Len(text) : text[i] \notin Whitespace}

Min(S) == CHOOSE x \in S : \A y \in S : x <= y
Max(S) == CHOOSE x \in S : \A y \in S : x >= y

\* the caption the file stands for: its content from the first to the last
\* character that is not whitespace, or the fallback when there is no file,
\* no such character, or the read fails
ExpectedCaption(file) ==
    IF file.state = "file" /\ Inked(file.text) # {}
    THEN SubSeq(file.text, Min(Inked(file.text)), Max(Inked(file.text)))
    ELSE FallbackCaption

\* C20: every captioned send carries the caption the file stands for at
\* the time of that send (trimmed content, or the fallback), so a change
\* of the file between two sends shows in the second one
C20_CaptionReadAtEverySend ==
    [][(opLog' # opLog /\ opLog'[Len(opLog')].banner = "X")
         => opLog'[Len(opLog')].content =
                ExpectedPing \o ExpectedCaption(bannerFile)]_vars

\* two captioned sends with the file edited in between: the first has the
\* fallback, the second the trimmed text of the file
C20_Witness ==
    /\ Len(opLog) = 2
    /\ roleId = PlaceholderRole
    /\ opLog[1].banner = "X" /\ opLog[1].content = FallbackCaption
    /\ opLog[2].banner = "X" /\ opLog[2].content = <<"a", " ", "a">>
    /\ bannerFile = TextFile(<<"a", " ", "a">>)

\* the text contains the label of banner b as a whole-word sequence
HasLabel(t, b) ==
    \E p \in 1..(Len(t) - 2) :
        /\ SubSeq(t, p, p + 2) = LabelText(b)
        /\ ~WordBefore(t, p)
        /\ ~WordAfter(t, p + 2)

\* the text contains XBANNER or YBANNER, the letter glued to the word
HasGlued(t) ==
    \E p \in 1..(Len(t) - 1) : t[p] \in {"X", "Y"} /\ t[p + 1] = "BANNER"

\* C16: the probe of banner b accepts a text that contains the label of b
\* as a whole-word sequence (and neither the label of the other banner
\* nor a glued XBANNER), and accepts no text that does not contain the
\* label of b as a whole-word sequence
C16_ClassificationByContainment ==
    \A i \in 1..Len(opLog) :
        opLog[i].op \in {"extractBannerLabel", "ocrBannerName"} =>
          /\ (/\ HasLabel(ocrText, opLog[i].banner)
              /\ \A c \in Banners \ {opLog[i].banner} : ~HasLabel(ocrText, c)
              /\ ~HasGlued(ocrText))
                => opLog[i].ok
          /\ ~HasLabel(ocrText, opLog[i].banner) => ~opLog[i].ok

\* session s ends its X loop in this step without having recognised X in
\* any of the attempts its bound allows
XLoopExhausted(s) ==
    /\ sess[s].pc = "b_delay" /\ sess[s].banner = "X"
    /\ ~sess[s].recognized
    /\ sess[s].attempts >= AttemptBound
    /\ sess'[s] # sess[s]

\* C14: when the X loop uses up its attempts without recognising X, the
\* same session goes on with the Y loop
C14_YRunsAfterXExhausted ==
    [][\A s \in Sessions :
         XLoopExhausted(s)
           => (sess'[s].pc = "b_probe" /\ sess'[s].banner = "Y")]_vars


\* C21: at every moment at most one browser launched by the bot is live
C21_AtMostOneBrowser == Cardinality(liveBrowsers) <= 1

\* C30: a session started by the scheduler at a scheduled minute captures
\* and sends one banner only
C30_OneBannerPerScheduledTime ==
    \A s \in Sessions :
        sess[s].by = "tick" => Cardinality(sess[s].dispatched) <= 1

\* C22: when a session returns the worker handle is null and terminate
\* was invoked on the worker the session created
C22_WorkerTerminatedOnReturn ==
    [][\A s \in Sessions :
         Returns(s) => (tesseractWorker' = Null /\ s \notin engines)]_vars

\* C23: at most one OCR worker exists on which terminate was not invoked
C23_AtMostOneEngine == Cardinality(engines) <= 1

\* performRecovery has run: the names of the calls it made
Recovered == \E i \in 1..Len(opLog) : opLog[i].op = "performRecovery"
CallsMade == {opLog[i].op : i \in 1..Len(opLog)}
Listed(issue) == \E i \in 1..Len(issues) : issues[i] = issue

\* C24: a recovery for 'Video element not found' alone starts the video
\* and neither restarts the browser nor reloads nor navigates
C24_VideoIssueStartsVideoOnly ==
    (Recovered /\ issues = <<IssueNoVideo>>)
        => /\ "startVideoEnhanced" \in CallsMade
           /\ CallsMade \cap {"restartBrowser", "refreshPage", "page.goto"}
                = {}

C24_Witness ==
    /\ Recovered /\ issues = <<IssueNoVideo>>
    /\ "startVideoEnhanced" \in CallsMade

\* C25: a recovery restarts the browser exactly when the issue list
\* contains 'Browser or page not available'
C25_RestartIffUnavailable ==
    Recovered => ("restartBrowser" \in CallsMade <=> Listed(IssueUnavailable))

\* the remedy performRecovery has for an issue; an issue without a remedy
\* of its own needs the restart
RemedyOf(issue) ==
    CASE issue = IssueErrorPage -> "refreshPage"
      [] issue \in {IssueNoVideo, IssueVideoStuck} -> "startVideoEnhanced"
      [] issue = IssueOffSite -> "page.goto"
      [] OTHER -> "restartBrowser"

\* C26: every issue the health check reported triggers its remedy in the
\* recovery that follows, the restart when it has no remedy of its own
C26_EveryIssueHasRemedy ==
    (Recovered /\ opLog[1].op = "performHealthCheck")
        => \A i \in 1..Len(issues) : RemedyOf(issues[i]) \in CallsMade

\* C27: the health check reports every failing check, whatever the other
\* checks found, and isHealthy tells whether the list is empty
C27_AllFailingChecksReported ==
    (opLog # <<>> /\ opLog[1].op = "performHealthCheck")
        => /\ Listed(IssueUnavailable) <=> site.handles # "ok"
           /\ Listed(IssueNoUrl) <=> site.url = "unreadable"
           /\ Listed(IssueOffSite) <=> site.url = "other"
           /\ Listed(IssueVideoUnknown) <=> site.video = "throws"
           /\ Listed(IssueNoVideo) <=> site.video = "missing"
           /\ Listed(IssueVideoStuck) <=> site.video = "stalled"
           /\ Listed(IssueErrorPage) <=> site.errors = "marker"
           /\ opLog[1].ok <=> issues = <<>>

\* a health check on an open page that is elsewhere, has no video and
\* shows an error marker
C27_Witness ==
    /\ opLog # <<>> /\ opLog[1].op = "performHealthCheck"
    /\ site.handles = "ok"
    /\ issues = <<IssueOffSite, IssueNoVideo, IssueErrorPage>>

\* C28: two captures that were sent are at least minTimeBetweenCaptures
\* apart
C28_CapturesSpaced ==
    \A i, j \in 1..Len(captureTimes) :
        i < j => captureTimes[j] - captureTimes[i] >= minTimeBetweenCaptures

\* C29: when the process has exited, stop has run to its end, no browser
\* is left open and no OCR worker is left unterminated
C29_StopCompletesBeforeExit ==
    proc = "exited"
        => /\ \E s \in Sessions : sess[s].pc = "stopped"
           /\ liveBrowsers = {}
           /\ engines = {}

\* session s leaves its capped X loop by the break in this step: the
\* banner was recognised and captured, and sent or found a duplicate
XLoopBreak(s) ==
    /\ variant = "capped"
    /\ sess[s].banner = "X"
    /\ \/ sess[s].pc = "b_send"
       \/ sess[s].pc = "b_full" /\ sess'[s].pc \notin {"b_send", "b_delay"}
    /\ sess'[s] # sess[s]

\* the Y capture of session s's !test-alternating-capture happens in this
\* step, after an X capture that was sent, and finds no duplicate image
AlternatingYAfterX(s) ==
    /\ sess[s].pc = "a_wait" /\ sess'[s].pc = "a_replied"
    /\ "X" \in sess[s].dispatched
    /\ ~(/\ now - lastCaptureTime >= minTimeBetweenCaptures
         /\ captureTimes' = captureTimes)

\* C31: !test-alternating-capture tests both banners: in an invocation
\* whose X capture was sent and whose Y image is not a duplicate, the Y
\* capture is sent too and the reply reports both banners captured
C31_AlternatingCapturesBoth ==
    [][\A s \in Sessions :
         AlternatingYAfterX(s) => "Y" \in sess'[s].dispatched]_vars

\* no invocation of !test-alternating-capture reports both banners captured
AlternatingNeverBoth ==
    \A s \in Sessions :
        sess[s].by = "alternating" => sess[s].dispatched # {"X", "Y"}

\* session s hands an image to sendToDiscord in this step
Dispatches(s) == sess[s].pc # "send" /\ sess'[s].pc = "send"

\* C33: a session dispatches at most one X image and at most one Y image,
\* and its X dispatch comes before its Y dispatch
C33_OneDispatchPerBannerXFirst ==
    [][\A s \in Sessions :
         Dispatches(s)
           => /\ sess[s].banner \notin sess[s].dispatched
              /\ sess[s].banner = "X" => sess[s].dispatched = {}
              /\ sess'[s].dispatched = sess[s].dispatched \cup {sess[s].banner}
      ]_vars

\* a session has dispatched X and is now dispatching Y
C33_Witness ==
    \E s \in Sessions :
        sess[s].pc = "send" /\ sess[s].banner = "Y"
          /\ sess[s].dispatched = {"X", "Y"}

\* C34: every image delivered under identity I is a capture of banner I
C34_ImageShowsItsBanner ==
    \A b \in Banners :
        \A i \in SendsOf(opLog, b) :
            opLog[i].ok => SentImage(opLog, i) = Pixels(b)

\* the recorded operation i is a full capture that succeeded and whose
\* image was not handed to sendToDiscord
Suppressed(i) ==
    /\ opLog[i].op = "full" /\ opLog[i].ok
    /\ ~FollowedBySend(i, opLog[i].banner)

C32_SessionsOnlyOnSchedule ==
    [][variant = "long-lived" =>
         \A s \in Sessions :
           (sess'[s].pc \in CapturePcs /\ sess[s].pc \notin CapturePcs)
             => \/ sess'[s].by = "capture"
                \/ sess'[s].by = "tick" /\ ShouldCapture(minute')]_vars

\* C37: in the long-lived class, whenever isRunning is true the browser
\* and the page handle are set and the browser is open
C37_RunningImpliesHandles ==
    (variant = "long-lived" /\ isRunning)
        => (browser # Null /\ page # Null /\ browser \in liveBrowsers)

\* C38: at most one monitorLoop instance is active, whatever
\* startMonitoring, restartBrowser and testScreenshot have done
C38_AtMostOneLoop == Cardinality(Loops) <= 1

\* C39: while the bot is running exactly one scheduler timer is installed
C39_ExactlyOneTimer ==
    (variant \in {"long-lived", "notes"} /\ isRunning) => timers = 1

\* C36: in the bounded-retry class an identity whose dispatch is under way
\* has not been dispatched before and is being dispatched by this session
\* only, so it is dispatched at most once in the lifetime of the process
C36_DispatchedAtMostOnce ==
    variant = "retry5" =>
      \A s \in Sessions :
        sess[s].pc = "b_send" =>
          /\ lastSentBannerNames[sess[s].banner] # BannerLabel(sess[s].banner)
          /\ \A t \in Sessions \ {s} :
                ~(sess[t].pc = "b_send" /\ sess[t].banner = sess[s].banner)

\* C40: a capped X loop that ends with a recognition, also on the last
\* attempt the cap allows, is followed by the Y loop
C40_LastAttemptSuccessRunsY ==
    [][\A s \in Sessions :
         XLoopBreak(s)
           => (sess'[s].pc = "b_probe" /\ sess'[s].banner = "Y")]_vars

====
